---- MODULE Spec2Model ----
(***************************************************************************)
(* Model of sql-helper/src-tauri/src/java_parser.rs: JavaParser::parse,    *)
(* JavaParser::generate_mermaid, JavaParser::generate_mermaid_filtered and *)
(* the FlowGenerator that walks a tree-sitter-java syntax tree and emits   *)
(* Mermaid flowchart text.                                                 *)
(*                                                                         *)
(* The syntax tree is the input: a node is a record                        *)
(*   [kind, named, field, pre, text, kids, start, end]                     *)
(* as tree-sitter exposes it (kind(), is_named(), the field name it has in *)
(* its parent, ordered children, byte_range()).  `pre` is the white space  *)
(* in front of the node and `text` the text of a leaf; the source string   *)
(* is the concatenation of both over the leaves, so that every             *)
(* source[start..end] of the code is a SubSeq of the real Java text.       *)
(***************************************************************************)
EXTENDS Integers, Sequences, FiniteSets, TLC

VARIABLES
    tree,      \* the syntax tree of the source unit (tree-sitter's parse)
    source,    \* the source text
    graph,     \* the CallGraph parse returned
    request,   \* the arguments of the render call
    result,    \* what the render call returned
    diagram,   \* the lines of result.mermaid
    steps,     \* history: the statements the render call processed
    pc

vars == <<tree, source, graph, request, result, diagram, steps, pc>>

(***************************************************************************)
(* Option<T>: None is the empty sequence, Some(x) the one-element one.     *)
(***************************************************************************)
None == <<>>
Some(x) == <<x>>
IsSome(o) == o # <<>>
Unwrap(o) == o[1]

(***************************************************************************)
(* Texts.  A text (a Rust String or &str) is the sequence of its UTF-8     *)
(* bytes, each a number in 0..255; byte offsets, lengths, slices and the   *)
(* order of texts are then those of the code.  B("...") is the text of an  *)
(* ASCII literal.                                                          *)
(***************************************************************************)
\* The characters U+0009 to U+007E in the order of their bytes; a tab stands
\* at the place of each character that no literal of this module holds
\* (U+000B, U+000E to U+001F and U+0060).
Ascii ==
    "\t\n\t\f\r\t\t\t\t\t\t\t\t\t\t\t\t\t\t\t\t\t\t !\"#$%&'()*+,-./0123456789:;<=>?@ABCDEFGHIJKLMNOPQRSTUVWXYZ[\\]^_\tabcdefghijklmnopqrstuvwxyz{|}~"

\* The byte of each character of Ascii: 8 plus its first place in it.
ByteTable ==
    [c \in {SubSeq(Ascii, i, i) : i \in 1..Len(Ascii)} |->
        8 + CHOOSE i \in 1..Len(Ascii) :
                /\ SubSeq(Ascii, i, i) = c
                /\ \A j \in 1..(i - 1) : SubSeq(Ascii, j, j) # c] @@ <<>>

\* The bytes of the literal s.
B(s) == [i \in 1..Len(s) |-> ByteTable[SubSeq(s, i, i)]]

\* The bytes of one character in UTF-8, the whole text being valid UTF-8:
\* a byte below 0x80 stands alone, the bytes 0x80 to 0xBF continue a
\* character, and a lead byte tells the length.
IsContinuation(b) == 128 <= b /\ b < 192

(***************************************************************************)
(* String helpers (Rust str methods used by the code).                     *)
(***************************************************************************)
\* str::starts_with
StartsWith(s, p) == Len(p) <= Len(s) /\ SubSeq(s, 1, Len(p)) = p

\* str::ends_with
EndsWith(s, p) == Len(p) <= Len(s) /\ SubSeq(s, Len(s) - Len(p) + 1, Len(s)) = p

\* The concatenation of the texts q[lo], ..., q[hi], by halves.
RECURSIVE ConcatRange(_, _, _)
ConcatRange(q, lo, hi) ==
    IF lo > hi THEN <<>>
    ELSE IF lo = hi THEN q[lo]
    ELSE ConcatRange(q, lo, (lo + hi) \div 2) \o ConcatRange(q, (lo + hi) \div 2 + 1, hi)

\* str::replace(from, to) for a pattern of one ASCII character: from is a
\* byte, to a text
ReplaceChar(s, from, to) ==
    ConcatRange([i \in 1..Len(s) |-> IF s[i] = from THEN to ELSE <<s[i]>>], 1, Len(s))

\* str::contains
Contains(s, p) == \E i \in 0..(Len(s) - Len(p)) : SubSeq(s, i + 1, i + Len(p)) = p

\* char::is_whitespace, for a character given by its UTF-8 bytes: the
\* characters with the property White_Space, which are U+0009 to U+000D,
\* U+0020, U+0085, U+00A0, U+1680, U+2000 to U+200A, U+2028, U+2029, U+202F,
\* U+205F and U+3000.
WhiteSpace ==
    {<<b>> : b \in 9..13} \cup {<<32>>, <<194, 133>>, <<194, 160>>, <<225, 154, 128>>}
    \cup {<<226, 128, b>> : b \in 128..138}
    \cup {<<226, 128, 168>>, <<226, 128, 169>>, <<226, 128, 175>>, <<226, 129, 159>>,
          <<227, 128, 128>>}

IsSpace(c) == c \in WhiteSpace

\* str::trim_start: the white-space characters at the start are dropped.
RECURSIVE TrimStart(_)
TrimStart(s) ==
    LET first == {w \in WhiteSpace : StartsWith(s, w)}
    IN IF first = {} THEN s
       ELSE TrimStart(SubSeq(s, Len(CHOOSE w \in first : TRUE) + 1, Len(s)))

\* str::trim_end: the white-space characters at the end are dropped.
RECURSIVE TrimEnd(_)
TrimEnd(s) ==
    LET last == {w \in WhiteSpace : EndsWith(s, w)}
    IN IF last = {} THEN s
       ELSE TrimEnd(SubSeq(s, 1, Len(s) - Len(CHOOSE w \in last : TRUE)))

\* str::trim
Trim(s) == TrimEnd(TrimStart(s))

\* str::lines().next(): the text before the first "\n", without the "\r" that
\* comes directly before that "\n"; the whole text when it has no "\n".
UpToNewline(s) ==
    LET breaks == {i \in 1..Len(s) : s[i] = 10}
        first == CHOOSE i \in breaks : \A j \in breaks : i <= j
    IN IF breaks = {} THEN s
       ELSE IF first > 1 /\ s[first - 1] = 13
       THEN SubSeq(s, 1, first - 2)
       ELSE SubSeq(s, 1, first - 1)

\* None for the empty text, which has no line.
FirstLine(s) == IF s = <<>> THEN None ELSE Some(UpToNewline(s))

\* [String]::join
RECURSIVE Join(_, _)
Join(parts, sep) ==
    IF parts = <<>> THEN <<>>
    ELSE IF Len(parts) = 1 THEN parts[1]
    ELSE parts[1] \o sep \o Join(Tail(parts), sep)

\* Ord for String (lexicographic on bytes), as Vec<String>::sort uses it
RECURSIVE StrLess(_, _)
StrLess(a, b) ==
    IF b = <<>> THEN FALSE
    ELSE IF a = <<>> THEN TRUE
    ELSE IF a[1] = b[1] THEN StrLess(Tail(a), Tail(b))
    ELSE a[1] < b[1]

\* Vec<String>::sort of a collection without duplicates (the keys of a map):
\* the next element is the one below all others.
RECURSIVE SortedSeq(_)
SortedSeq(S) ==
    IF S = {} THEN <<>>
    ELSE LET m == CHOOSE x \in S : \A y \in S \ {x} : StrLess(x, y)
         IN <<m>> \o SortedSeq(S \ {m})

(***************************************************************************)
(* Syntax trees as tree-sitter-java builds them.                           *)
(***************************************************************************)
\* an anonymous token, whose kind is its text
Tok(t) == [kind |-> t, named |-> FALSE, field |-> "", pre |-> <<>>, text |-> B(t),
           kids |-> <<>>]
\* a named leaf with the text t
Leaf(k, t) == [kind |-> k, named |-> TRUE, field |-> "", pre |-> <<>>, text |-> t,
               kids |-> <<>>]
Node(k, ks) == [kind |-> k, named |-> TRUE, field |-> "", pre |-> <<>>, text |-> <<>>,
                kids |-> ks]
F(f, n) == [n EXCEPT !.field = f]
Sp(n) == [n EXCEPT !.pre = <<32>>]
Nl(n) == [n EXCEPT !.pre = <<10>>]
\* the node n with the text gap in front of it
After(gap, n) == [n EXCEPT !.pre = gap]
\* the declaration n with the text name as its name
Renamed(n, name) ==
    [n EXCEPT !.kids = [i \in 1..Len(@) |->
                           IF @[i].field = "name" THEN [@[i] EXCEPT !.text = name]
                           ELSE @[i]]]

SpAll(ns) == [i \in 1..Len(ns) |-> Sp(ns[i])]

\* e1, e2, ... with ", " between them
RECURSIVE CommaSep(_)
CommaSep(es) ==
    IF es = <<>> THEN <<>>
    ELSE IF Len(es) = 1 THEN <<es[1]>>
    ELSE <<es[1], Tok(",")>> \o (LET r == CommaSep(Tail(es)) IN <<Sp(r[1])>> \o Tail(r))

Ident(n) == Leaf("identifier", B(n))
This == Leaf("this", B("this"))
IntLit(n) == Leaf("decimal_integer_literal", B(n))
\* a string literal with the content s
StrLit(s) == Leaf("string_literal", <<34>> \o s \o <<34>>)
Args(es) == Node("argument_list", <<Tok("(")>> \o CommaSep(es) \o <<Tok(")")>>)
Call(name, es) ==
    Node("method_invocation", <<F("name", Ident(name)), F("arguments", Args(es))>>)
CallOn(obj, name, es) ==
    Node("method_invocation",
         <<F("object", obj), Tok("."), F("name", Ident(name)), F("arguments", Args(es))>>)
FieldAccess(obj, f) ==
    Node("field_access", <<F("object", obj), Tok("."), F("field", Ident(f))>>)
Binary(l, op, r) ==
    Node("binary_expression", <<F("left", l), Sp(F("operator", Tok(op))), Sp(F("right", r))>>)
Paren(e) == Node("parenthesized_expression", <<Tok("("), e, Tok(")")>>)

ExprStmt(e) == Node("expression_statement", <<e, Tok(";")>>)
LocalVar(ty, name, e) ==
    Node("local_variable_declaration",
         <<F("type", Leaf("type_identifier", B(ty))),
           Sp(F("declarator",
                Node("variable_declarator",
                     <<F("name", Ident(name)), Sp(Tok("=")), Sp(F("value", e))>>))),
           Tok(";")>>)
Return(e) == Node("return_statement", <<Tok("return"), Sp(e), Tok(";")>>)
ReturnVoid == Node("return_statement", <<Tok("return"), Tok(";")>>)
Throw(e) == Node("throw_statement", <<Tok("throw"), Sp(e), Tok(";")>>)
Break == Node("break_statement", <<Tok("break"), Tok(";")>>)
Block(ss) == Node("block", <<Tok("{")>> \o SpAll(ss) \o <<Sp(Tok("}"))>>)
If(c, th) ==
    Node("if_statement",
         <<Tok("if"), Sp(F("condition", Paren(c))), Sp(F("consequence", th))>>)
IfElse(c, th, el) ==
    Node("if_statement",
         <<Tok("if"), Sp(F("condition", Paren(c))), Sp(F("consequence", th)),
           Sp(Tok("else")), Sp(F("alternative", el))>>)
While(c, body) ==
    Node("while_statement",
         <<Tok("while"), Sp(F("condition", Paren(c))), Sp(F("body", body))>>)
DoWhile(body, c) ==
    Node("do_statement",
         <<Tok("do"), Sp(F("body", body)), Sp(Tok("while")),
           Sp(F("condition", Paren(c))), Tok(";")>>)
\* for (init cond; update) body, where init is a local_variable_declaration
\* (its text ends with the ';')
For(init, cond, update, body) ==
    Node("for_statement",
         <<Tok("for"), Sp(Tok("(")), F("init", init), Sp(F("condition", cond)), Tok(";"),
           Sp(F("update", update)), Tok(")"), Sp(F("body", body))>>)
ForEach(ty, name, value, body) ==
    Node("enhanced_for_statement",
         <<Tok("for"), Sp(Tok("(")), F("type", Leaf("type_identifier", B(ty))),
           Sp(F("name", Ident(name))), Sp(Tok(":")), Sp(F("value", value)), Tok(")"),
           Sp(F("body", body))>>)
CaseLabel(e) == Node("switch_label", <<Tok("case"), Sp(e)>>)
DefaultLabel == Node("switch_label", <<Tok("default")>>)
\* one case group with a single label: label ':' statements
Group(label, ss) ==
    Node("switch_block_statement_group", <<label, Tok(":")>> \o SpAll(ss))
\* case l1: case l2: statements
Group2(l1, l2, ss) ==
    Node("switch_block_statement_group",
         <<l1, Tok(":"), Sp(l2), Tok(":")>> \o SpAll(ss))
\* case e -> statement (arrow form)
Rule(e, s) == Node("switch_rule", <<CaseLabel(e), Sp(Tok("->")), Sp(s)>>)
Switch(c, groups) ==
    Node("switch_expression",
         <<Tok("switch"), Sp(F("condition", Paren(c))),
           Sp(F("body", Node("switch_block",
                             <<Tok("{")>> \o SpAll(groups) \o <<Sp(Tok("}"))>>)))>>)

Modifiers(ms) ==
    Node("modifiers", <<Tok(ms[1])>> \o [i \in 1..(Len(ms) - 1) |-> Sp(Tok(ms[i + 1]))])
MethodHead(ms, ty, name) ==
    (IF ms = <<>> THEN <<F("type", Leaf("void_type", B(ty)))>>
     ELSE <<Modifiers(ms), Sp(F("type", Leaf("void_type", B(ty))))>>)
    \o <<Sp(F("name", Ident(name))),
         F("parameters", Node("formal_parameters", <<Tok("("), Tok(")")>>))>>
Method(ms, ty, name, body) ==
    Node("method_declaration", MethodHead(ms, ty, name) \o <<Sp(F("body", body))>>)
\* a declaration without a body: abstract void f();
MethodNoBody(ms, ty, name) ==
    Node("method_declaration", MethodHead(ms, ty, name) \o <<Tok(";")>>)
Class(name, members) ==
    Node("class_declaration",
         <<Tok("class"), Sp(F("name", Ident(name))),
           Sp(F("body", Node("class_body",
                             <<Tok("{")>>
                             \o [i \in 1..Len(members) |-> Nl(members[i])]
                             \o <<Nl(Tok("}"))>>)))>>)
Program(decls) == Node("program", decls)

(***************************************************************************)
(* Byte ranges and the source text of a tree.                              *)
(***************************************************************************)
RECURSIVE TextOf(_)
TextOf(n) ==
    IF n.kids = <<>> THEN n.text
    ELSE ConcatRange([i \in 1..Len(n.kids) |-> n.kids[i].pre \o TextOf(n.kids[i])],
                     1, Len(n.kids))

\* w[1] + ... + w[k]
RECURSIVE SumTo(_, _)
SumTo(w, k) == IF k = 0 THEN 0 ELSE w[k] + SumTo(w, k - 1)

\* The start offsets of the children of n, n starting at `off` and w[i]
\* being the number of bytes child i takes with the text in front of it.
ChildStarts(n, off, w) ==
    [i \in 1..Len(n.kids) |-> off + SumTo(w, i - 1) + Len(n.kids[i].pre)]

\* The node with start/end byte offsets, the node itself starting at `off`.
RECURSIVE Layout(_, _)
LayoutChildren(n, starts) == [i \in 1..Len(n.kids) |-> Layout(n.kids[i], starts[i])]

LaidOut(n, off, ks) ==
    [kind |-> n.kind, named |-> n.named, field |-> n.field, start |-> off,
     end |-> IF ks = <<>> THEN off + Len(n.text) ELSE ks[Len(ks)].end, kids |-> ks]

Layout(n, off) ==
    LaidOut(n, off,
            LayoutChildren(n, ChildStarts(n, off,
                                          [i \in 1..Len(n.kids) |->
                                              Len(n.kids[i].pre \o TextOf(n.kids[i]))])))

\* &source[node.byte_range().start..node.byte_range().end]
Src(src, n) == SubSeq(src, n.start + 1, n.end)

\* Node::child_by_field_name
ChildByFieldName(n, f) ==
    LET hits == {i \in 1..Len(n.kids) : n.kids[i].field = f}
    IN IF hits = {} THEN None
       ELSE Some(n.kids[CHOOSE i \in hits : \A j \in hits : i <= j])

(***************************************************************************)
(* JavaParser::parse: the method registry and the caller -> callees lists. *)
(***************************************************************************)
\* A variant that keeps the value a key already has.
MapInsert_keep_first(m, k, v) == [x \in (DOMAIN m) \cup {k} |-> IF x \in DOMAIN m THEN m[x] ELSE v]

\* HashMap::insert
MapInsert(m, k, v) == [x \in (DOMAIN m) \cup {k} |-> IF x = k THEN v ELSE m[x]]

\* Texts of the children of a node, trimmed (the modifier tokens)
ChildTexts(n, src) == [i \in 1..Len(n.kids) |-> Trim(Src(src, n.kids[i]))]

\* The modifiers of a method_declaration: the children of its modifiers node,
\* the node's whole text when it has no child, nothing without such a node.
method_modifiers(child, src) ==
    LET byField == ChildByFieldName(child, "modifiers")
        byKind == {i \in 1..Len(child.kids) : child.kids[i].kind = "modifiers"}
        modifiers_node ==
            IF IsSome(byField) THEN byField
            ELSE IF byKind = {} THEN None
            ELSE Some(child.kids[CHOOSE i \in byKind : \A j \in byKind : i <= j])
    IN IF IsSome(modifiers_node)
       THEN LET mn == Unwrap(modifiers_node)
                modifiers == ChildTexts(mn, src)
            IN IF modifiers = <<>> THEN <<Trim(Src(src, mn))>> ELSE modifiers
       ELSE <<>>

\* acc = [methods, declarations]
RECURSIVE collect_method_declarations(_, _, _)
collect_method_declarations(node, src, acc) ==
    LET RECURSIVE loop(_, _)
        loop(i, a) ==
            IF i > Len(node.kids) THEN a
            ELSE LET child == node.kids[i]
                     name_node == ChildByFieldName(child, "name")
                     name == Trim(Src(src, Unwrap(name_node)))
                     ty == ChildByFieldName(child, "type")
                     method_node ==
                         [name |-> name,
                          range |-> <<child.start, child.end>>,
                          modifiers |-> method_modifiers(child, src),
                          return_type |-> IF IsSome(ty) THEN Trim(Src(src, Unwrap(ty)))
                                          ELSE <<>>]
                     next ==
                         IF child.kind = "method_declaration"
                         THEN IF IsSome(name_node)
                              THEN [methods |-> MapInsert(a.methods, name, method_node),
                                    declarations |->
                                        Append(a.declarations,
                                               [name |-> name, node |-> child])]
                              ELSE a
                         ELSE IF child.kind = "class_declaration"
                         THEN collect_method_declarations(child, src, a)
                         ELSE IF child.kind = "class_body"
                         THEN collect_method_declarations(child, src, a)
                         ELSE a
                 IN IF Len(next.declarations) >= 0 THEN loop(i + 1, next) ELSE next
    IN loop(1, acc)

\* A variant that puts a callee in front of the ones found before it.
RECURSIVE visit_body_newest_first(_, _, _, _)
visit_body_newest_first(node, src, valid_methods, calls) ==
    LET RECURSIVE loop(_, _)
        loop(i, cs) ==
            IF i > Len(node.kids) THEN cs
            ELSE LET child == node.kids[i]
                     name_node == ChildByFieldName(child, "name")
                     name == Src(src, Unwrap(name_node))
                     object_node == ChildByFieldName(child, "object")
                     is_local_call ==
                         IF IsSome(object_node)
                         THEN Src(src, Unwrap(object_node)) = B("this")
                         ELSE TRUE
                     cs1 == IF IsSome(name_node) /\ is_local_call /\ name \in valid_methods
                            THEN <<name>> \o cs ELSE cs
                     args == ChildByFieldName(child, "arguments")
                     next ==
                         IF child.kind = "method_invocation"
                         THEN IF IsSome(args)
                              THEN visit_body_newest_first(Unwrap(args), src, valid_methods,
                                                           cs1)
                              ELSE cs1
                         ELSE IF Len(child.kids) > 0
                         THEN visit_body_newest_first(child, src, valid_methods, cs)
                         ELSE cs
                 IN IF Len(next) >= 0 THEN loop(i + 1, next) ELSE next
    IN loop(1, calls)

\* Appends to `calls` the declared methods invoked below `node`, with no
\* receiver or with the receiver `this`.
RECURSIVE visit_body(_, _, _, _)
visit_body(node, src, valid_methods, calls) ==
    LET RECURSIVE loop(_, _)
        loop(i, cs) ==
            IF i > Len(node.kids) THEN cs
            ELSE LET child == node.kids[i]
                     name_node == ChildByFieldName(child, "name")
                     name == Src(src, Unwrap(name_node))
                     object_node == ChildByFieldName(child, "object")
                     is_local_call ==
                         IF IsSome(object_node)
                         THEN Src(src, Unwrap(object_node)) = B("this")
                         ELSE TRUE
                     cs1 == IF IsSome(name_node) /\ is_local_call /\ name \in valid_methods
                            THEN Append(cs, name) ELSE cs
                     args == ChildByFieldName(child, "arguments")
                     next ==
                         IF child.kind = "method_invocation"
                         THEN IF IsSome(args)
                              THEN visit_body(Unwrap(args), src, valid_methods, cs1)
                              ELSE cs1
                         ELSE IF Len(child.kids) > 0
                         THEN visit_body(child, src, valid_methods, cs)
                         ELSE cs
                 IN IF Len(next) >= 0 THEN loop(i + 1, next) ELSE next
    IN loop(1, calls)

find_calls(node, src, valid_methods) ==
    LET body == ChildByFieldName(node, "body")
    IN IF IsSome(body) THEN visit_body(Unwrap(body), src, valid_methods, <<>>)
       ELSE <<>>

\* A variant whose registry keeps only the methods declared with modifiers.
parse_modified_only(src, root_node) ==
    LET pass1 == collect_method_declarations(root_node, src,
                                             [methods |-> <<>>, declarations |-> <<>>])
        method_names == DOMAIN pass1.methods
        RECURSIVE pass2(_, _)
        pass2(i, method_calls) ==
            IF i > Len(pass1.declarations) THEN method_calls
            ELSE LET d == pass1.declarations[i]
                 IN pass2(i + 1,
                          MapInsert(method_calls, d.name,
                                    find_calls(d.node, src, method_names)))
    IN [nodes |-> [n \in {k \in method_names : pass1.methods[k].modifiers # <<>>} |->
                      pass1.methods[n]],
        calls |-> pass2(1, <<>>)]

\* The CallGraph of a source unit whose syntax tree is root_node.
parse(src, root_node) ==
    LET pass1 == collect_method_declarations(root_node, src,
                                             [methods |-> <<>>, declarations |-> <<>>])
        method_names == DOMAIN pass1.methods
        RECURSIVE pass2(_, _)
        pass2(i, method_calls) ==
            IF i > Len(pass1.declarations) THEN method_calls
            ELSE LET d == pass1.declarations[i]
                 IN pass2(i + 1,
                          MapInsert(method_calls, d.name,
                                    find_calls(d.node, src, method_names)))
    IN [nodes |-> pass1.methods, calls |-> pass2(1, <<>>)]

(***************************************************************************)
(* The lines FlowGenerator pushes to its output, and their text.           *)
(***************************************************************************)
Line(t, id, to, text, lab, cls, off) ==
    [t |-> t, id |-> id, to |-> to, text |-> text, lab |-> lab, cls |-> cls, off |-> off]

HeaderLine == Line("header", "", "", <<>>, None, "", 0)
SubgraphLine(name) == Line("subgraph", "", "", name, None, "", 0)
DirectionLine == Line("direction", "", "", <<>>, None, "", 0)
EndLine == Line("end", "", "", <<>>, None, "", 0)
\* shape: "stadium" ([..]), "rect" [..], "diamond" {..}, "hexagon" {{..}}
NodeLine(id, shape, label, cls) == Line(shape, id, "", label, None, cls, 0)
\* A variant whose directive references the start of the source.
ClickLine_to_start(id, off) == Line("click", id, "", <<>>, None, "", 0)
ClickLine(id, off) == Line("click", id, "", <<>>, None, "", off)
EdgeLine(prev, lab, id) == Line("edge", prev, id, <<>>, lab, "", 0)
RepeatLine(prev, id) == Line("repeat", prev, id, <<>>, None, "", 0)
ClassDefLine(text) == Line("classDef", "", "", text, None, "", 0)

NodeShapes == {"stadium", "rect", "diamond", "hexagon"}

\* match &pending_label { Some(l) => format!("-->|{}|", l), None => "-->" }
Arrow(lab) == IF IsSome(lab) THEN B("-->|") \o Unwrap(lab) \o B("|") ELSE B("-->")

ClassSuffix(cls) == IF cls = "" THEN <<>> ELSE B(":::" \o cls)

\* The text of a line; identifiers, style classes and offsets are ASCII.
LineText(l) ==
    CASE l.t = "header" -> B("flowchart TD\n")
      [] l.t = "subgraph" -> B("  subgraph ") \o l.text \o B("\n")
      [] l.t = "direction" -> B("    direction TB\n")
      [] l.t = "end" -> B("  end\n")
      [] l.t = "stadium" ->
            B("    " \o l.id \o "([\"") \o l.text \o B("\"])") \o ClassSuffix(l.cls)
            \o B("\n")
      [] l.t = "rect" ->
            B("    " \o l.id \o "[\"") \o l.text \o B("\"]") \o ClassSuffix(l.cls)
            \o B("\n")
      [] l.t = "diamond" ->
            B("    " \o l.id \o "{\"") \o l.text \o B("\"}") \o ClassSuffix(l.cls)
            \o B("\n")
      [] l.t = "hexagon" ->
            B("    " \o l.id \o "{{\"") \o l.text \o B("\"}}") \o ClassSuffix(l.cls)
            \o B("\n")
      [] l.t = "click" ->
            B("    click " \o l.id \o " call onNodeClick(\"offset-" \o ToString(l.off)
              \o "\") \"Scroll to source\"\n")
      [] l.t = "edge" ->
            B("    " \o l.id \o " ") \o Arrow(l.lab) \o B(" " \o l.to \o "\n")
      [] l.t = "repeat" -> B("    " \o l.id \o " -.->|repeat| " \o l.to \o "\n")
      [] l.t = "classDef" -> B("  classDef ") \o l.text \o B("\n")

TextOfLines(ls) == ConcatRange([i \in 1..Len(ls) |-> LineText(ls[i])], 1, Len(ls))

\* The style-class declarations that end every diagram.
Styles ==
    <<ClassDefLine(B("public fill:#f9f,stroke:#333,stroke-width:2px;")),
      ClassDefLine(B("internal fill:#e1f5fe,stroke:#01579b,stroke-width:1px;")),
      ClassDefLine(B("external fill:#ffe0b2,stroke:#e65100,stroke-width:1px,stroke-dasharray: 5 5;")),
      ClassDefLine(B("decision fill:#fff9c4,stroke:#fbc02d,stroke-width:1px,shape:rhombus;")),
      ClassDefLine(B("loop fill:#e8f5e9,stroke:#2e7d32,stroke-width:1px;")),
      ClassDefLine(B("endNode fill:#fce4ec,stroke:#c62828,stroke-width:2px;"))>>

(***************************************************************************)
(* FlowGenerator.  g is the generator:                                     *)
(*   [source, graph, output, node_counter, ignored_variables,              *)
(*    ignored_services, collapse_details, detected_externals],             *)
(* with panicked: a slice of a text has panicked, which ends the render.   *)
(* A method of the generator returns the generator it leaves behind next   *)
(* to its own result.                                                      *)
(*                                                                         *)
(* g.steps is a history of the calls of the four process_... methods, kept *)
(* to state properties of the frontier; nothing reads it.  An entry is     *)
(*   [kind, start, end : the statement,                                    *)
(*    prev_ids, label  : the frontier and the pending label handed in,     *)
(*    own              : the node of the construct ("" for a plain         *)
(*                       statement),                                       *)
(*    parts            : the frontiers its branches / body / cases left,   *)
(*    ids              : the frontier it returned].                        *)
(***************************************************************************)
Push(g, ls) == [g EXCEPT !.output = @ \o ls]

\* A variant that names the node after the counter before the increment.
next_id_old_counter(g) ==
    [g |-> [g EXCEPT !.node_counter = @ + 1],
     id |-> "N" \o ToString(g.node_counter)]

next_id(g) ==
    [g |-> [g EXCEPT !.node_counter = @ + 1],
     id |-> "N" \o ToString(g.node_counter + 1)]

\* for prev in &current_prevs { push "{prev} {arrow} {node_id}" }
EdgeLines(prevs, lab, id) == [i \in 1..Len(prevs) |-> EdgeLine(prevs[i], lab, id)]

\* A variant that takes every invocation without receiver for an internal call.
RECURSIVE collect_calls_recursive_any_name(_, _, _)
collect_calls_recursive_any_name(g, node, calls) ==
    LET name_node == ChildByFieldName(node, "name")
        name_text == Src(g.source, Unwrap(name_node))
        raw_text == Src(g.source, node)
        obj_node == ChildByFieldName(node, "object")
        obj_text == Src(g.source, Unwrap(obj_node))
        ignored_service ==
            \E i \in 1..Len(g.ignored_services) :
                \/ StartsWith(raw_text, g.ignored_services[i])
                \/ obj_text = g.ignored_services[i]
        ignored_variable ==
            \E i \in 1..Len(g.ignored_variables) :
                \/ obj_text = g.ignored_variables[i]
                \/ StartsWith(obj_text, g.ignored_variables[i] \o B("."))
        should_ignore == IsSome(obj_node) /\ (ignored_service \/ ignored_variable)
        is_internal ==
            IF IsSome(obj_node) THEN obj_text = B("this")
            ELSE TRUE
        here ==
            IF node.kind = "method_invocation" /\ IsSome(name_node) /\ ~should_ignore
            THEN [g |-> IF IsSome(obj_node) /\ obj_text # B("this")
                        THEN [g EXCEPT !.detected_externals = @ \cup {obj_text}]
                        ELSE g,
                  calls |-> Append(calls,
                                   [name |-> name_text, is_external |-> ~is_internal,
                                    raw_text |-> raw_text, offset |-> node.start])]
            ELSE [g |-> g, calls |-> calls]
        RECURSIVE loop(_, _)
        loop(i, acc) ==
            IF i > Len(node.kids) THEN acc
            ELSE LET below == collect_calls_recursive_any_name(acc.g, node.kids[i], acc.calls)
                 IN IF Len(below.calls) >= 0 THEN loop(i + 1, below) ELSE below
    IN loop(1, here)

\* The invocations at and below `node`, in document order, that no ignore
\* entry matches: [name, is_external, raw_text, offset].
RECURSIVE collect_calls_recursive(_, _, _)
collect_calls_recursive(g, node, calls) ==
    LET name_node == ChildByFieldName(node, "name")
        name_text == Src(g.source, Unwrap(name_node))
        raw_text == Src(g.source, node)
        obj_node == ChildByFieldName(node, "object")
        obj_text == Src(g.source, Unwrap(obj_node))
        ignored_service ==
            \E i \in 1..Len(g.ignored_services) :
                \/ StartsWith(raw_text, g.ignored_services[i])
                \/ obj_text = g.ignored_services[i]
        ignored_variable ==
            \E i \in 1..Len(g.ignored_variables) :
                \/ obj_text = g.ignored_variables[i]
                \/ StartsWith(obj_text, g.ignored_variables[i] \o B("."))
        should_ignore == IsSome(obj_node) /\ (ignored_service \/ ignored_variable)
        is_internal ==
            IF IsSome(obj_node) THEN obj_text = B("this")
            ELSE name_text \in DOMAIN g.graph.nodes
        here ==
            IF node.kind = "method_invocation" /\ IsSome(name_node) /\ ~should_ignore
            THEN [g |-> IF IsSome(obj_node) /\ obj_text # B("this")
                        THEN [g EXCEPT !.detected_externals = @ \cup {obj_text}]
                        ELSE g,
                  calls |-> Append(calls,
                                   [name |-> name_text, is_external |-> ~is_internal,
                                    raw_text |-> raw_text, offset |-> node.start])]
            ELSE [g |-> g, calls |-> calls]
        RECURSIVE loop(_, _)
        loop(i, acc) ==
            IF i > Len(node.kids) THEN acc
            ELSE LET below == collect_calls_recursive(acc.g, node.kids[i], acc.calls)
                 IN IF Len(below.calls) >= 0 THEN loop(i + 1, below) ELSE below
    IN loop(1, here)

find_calls_in_node(g, node) == collect_calls_recursive(g, node, <<>>)

\* The loop over the calls found in a statement or in an if condition: one
\* node and one click per call, an edge from every node of the frontier.
\* Returns [g, ids, label]: the frontier and the pending label it leaves.
\* A variant that labels an external call with the invocation text alone.
RECURSIVE emit_call_nodes_unprefixed(_, _, _, _)
emit_call_nodes_unprefixed(g, calls, current_prevs, pending_label) ==
    IF calls = <<>>
    THEN [g |-> g, ids |-> current_prevs, label |-> pending_label]
    ELSE LET c == Head(calls)
             n == next_id(g)
             text_label == IF c.is_external THEN c.raw_text ELSE c.name
             style == IF c.is_external THEN "external" ELSE "internal"
             safe_label == ReplaceChar(text_label, 34, B("'"))
             g1 == Push(n.g, <<NodeLine(n.id, "rect", safe_label, style),
                               ClickLine(n.id, c.offset)>>
                             \o EdgeLines(current_prevs, pending_label, n.id))
         IN IF g1.node_counter > 0
            THEN emit_call_nodes_unprefixed(g1, Tail(calls), <<n.id>>, None)
            ELSE [g |-> g1, ids |-> <<n.id>>, label |-> None]

RECURSIVE emit_call_nodes(_, _, _, _)
emit_call_nodes(g, calls, current_prevs, pending_label) ==
    IF calls = <<>>
    THEN [g |-> g, ids |-> current_prevs, label |-> pending_label]
    ELSE LET c == Head(calls)
             n == next_id(g)
             text_label == IF c.is_external THEN B("External: ") \o c.raw_text ELSE c.name
             style == IF c.is_external THEN "external" ELSE "internal"
             safe_label == ReplaceChar(text_label, 34, B("'"))
             g1 == Push(n.g, <<NodeLine(n.id, "rect", safe_label, style),
                               ClickLine(n.id, c.offset)>>
                             \o EdgeLines(current_prevs, pending_label, n.id))
         IN IF g1.node_counter > 0
            THEN emit_call_nodes(g1, Tail(calls), <<n.id>>, None)
            ELSE [g |-> g1, ids |-> <<n.id>>, label |-> None]

\* A variant that renders a return statement as its return node alone.
process_expression_return_only(g, node, prev_ids, label) ==
    LET is_return == node.kind = "return_statement"
        found == IF is_return THEN [g |-> g, calls |-> <<>>]
                 ELSE find_calls_in_node(g, node)
        after == emit_call_nodes(found.g, found.calls, prev_ids, label)
        n == next_id(after.g)
        return_text == ReplaceChar(Src(g.source, node), 34, B("'"))
    IN IF found.calls = <<>> /\ ~is_return
       THEN [g |-> found.g, ids |-> prev_ids, own |-> "", parts |-> <<>>]
       ELSE IF is_return
       THEN [g |-> Push(n.g, <<NodeLine(n.id, "rect", return_text, ""),
                               ClickLine(n.id, node.start)>>
                             \o EdgeLines(after.ids, after.label, n.id)),
             ids |-> <<n.id>>, own |-> "", parts |-> <<>>]
       ELSE [g |-> after.g, ids |-> after.ids, own |-> "", parts |-> <<>>]

\* A variant in which nothing follows a return statement.
process_expression_return_ends(g, node, prev_ids, label) ==
    LET found == find_calls_in_node(g, node)
        is_return == node.kind = "return_statement"
        after == emit_call_nodes(found.g, found.calls, prev_ids, label)
        n == next_id(after.g)
        return_text == ReplaceChar(Src(g.source, node), 34, B("'"))
    IN IF found.calls = <<>> /\ ~is_return
       THEN [g |-> found.g, ids |-> prev_ids, own |-> "", parts |-> <<>>]
       ELSE IF is_return
       THEN [g |-> Push(n.g, <<NodeLine(n.id, "rect", return_text, ""),
                               ClickLine(n.id, node.start)>>
                             \o EdgeLines(after.ids, after.label, n.id)),
             ids |-> <<>>, own |-> "", parts |-> <<>>]
       ELSE [g |-> after.g, ids |-> after.ids, own |-> "", parts |-> <<>>]

process_expression_with_label(g, node, prev_ids, label) ==
    LET found == find_calls_in_node(g, node)
        is_return == node.kind = "return_statement"
        after == emit_call_nodes(found.g, found.calls, prev_ids, label)
        n == next_id(after.g)
        return_text == ReplaceChar(Src(g.source, node), 34, B("'"))
    IN IF found.calls = <<>> /\ ~is_return
       THEN [g |-> found.g, ids |-> prev_ids, own |-> "", parts |-> <<>>]
       ELSE IF is_return
       THEN [g |-> Push(n.g, <<NodeLine(n.id, "rect", return_text, ""),
                               ClickLine(n.id, node.start)>>
                             \o EdgeLines(after.ids, after.label, n.id)),
             ids |-> <<n.id>>, own |-> "", parts |-> <<>>]
       ELSE [g |-> after.g, ids |-> after.ids, own |-> "", parts |-> <<>>]

\* The header text of a loop node.
loop_text(g, node) ==
    LET opt(f) == LET c == ChildByFieldName(node, f)
                  IN IF IsSome(c) THEN <<Src(g.source, Unwrap(c))>> ELSE <<>>
        orEmpty(f) == LET c == ChildByFieldName(node, f)
                      IN IF IsSome(c) THEN Src(g.source, Unwrap(c)) ELSE <<>>
        cond == ChildByFieldName(node, "condition")
    IN CASE node.kind = "for_statement" ->
              B("for (") \o Join(opt("init") \o opt("condition") \o opt("update"), B("; "))
              \o B(")")
         [] node.kind = "while_statement" ->
              IF IsSome(cond) THEN B("while ") \o Src(g.source, Unwrap(cond))
              ELSE B("while (...)")
         [] node.kind = "do_statement" ->
              IF IsSome(cond) THEN B("do...while ") \o Src(g.source, Unwrap(cond))
              ELSE B("do...while (...)")
         [] node.kind = "enhanced_for_statement" ->
              B("for (") \o orEmpty("type") \o B(" ") \o orEmpty("name") \o B(" : ")
              \o orEmpty("value") \o B(")")
         [] OTHER -> B("loop")

\* str::is_char_boundary(k): byte offset k is the start or the end of the
\* text, or the byte at it does not continue a character.
IsCharBoundary(text, k) ==
    k = 0 \/ k = Len(text) \/ (k < Len(text) /\ ~IsContinuation(text[k + 1]))

\* if text.len() > max { format!("{}...", &text[..keep]) } else { text }
\* Some(display text), or None when the slice panics because byte offset
\* keep is inside a character.
Truncate(text, max, keep) ==
    IF Len(text) > max
    THEN IF IsCharBoundary(text, keep) THEN Some(SubSeq(text, 1, keep) \o B("..."))
         ELSE None
    ELSE Some(text)

\* The text a truncation hands on; there is none after a panic.
Displayed(cut) == IF IsSome(cut) THEN Unwrap(cut) ELSE <<>>

\* The generator after a truncation: panicked holds once a slice has
\* panicked, and nothing the generator does from then on is returned.
Panicking(g, cut) == [g EXCEPT !.panicked = @ \/ ~IsSome(cut)]

\* The display label of one child of a switch block.
case_label(g, child) ==
    LET labels == {i \in 1..Len(child.kids) : child.kids[i].kind = "switch_label"}
        RECURSIVE parts(_)
        parts(i) ==
            IF i > Len(child.kids) THEN <<>>
            ELSE (IF i \in labels THEN <<Trim(Src(g.source, child.kids[i]))>> ELSE <<>>)
                 \o parts(i + 1)
        first_line == FirstLine(Src(g.source, child))
    IN IF child.kind = "switch_block_statement_group"
       THEN IF labels = {} THEN B("case") ELSE Join(parts(1), B(", "))
       ELSE Trim(IF IsSome(first_line) THEN Unwrap(first_line) ELSE B("case"))

RECURSIVE dispatch_node(_, _, _, _)
RECURSIVE traverse_node_with_label(_, _, _, _)

\* A variant that hands the label on to every child.
RECURSIVE children_with_label_kept(_, _, _, _, _)
children_with_label_kept(g, node, i, current_ids, current_label) ==
    IF i > Len(node.kids) THEN [g |-> g, ids |-> current_ids]
    ELSE IF ~node.kids[i].named
    THEN children_with_label_kept(g, node, i + 1, current_ids, current_label)
    ELSE LET rest(r) ==
                 IF r.ids # current_ids
                 THEN children_with_label_kept(r.g, node, i + 1, r.ids, current_label)
                 ELSE children_with_label_kept(r.g, node, i + 1, current_ids, current_label)
         IN rest(dispatch_node(g, node.kids[i], current_ids, current_label))

\* The loop shared by traverse_node_with_label (over a block) and
\* process_generic_recursive_with_label: the named children in order, the
\* label handed on until a child changes the frontier.
RECURSIVE children_with_label(_, _, _, _, _)
children_with_label(g, node, i, current_ids, current_label) ==
    IF i > Len(node.kids) THEN [g |-> g, ids |-> current_ids]
    ELSE IF ~node.kids[i].named
    THEN children_with_label(g, node, i + 1, current_ids, current_label)
    ELSE LET rest(r) ==
                 IF r.ids # current_ids
                 THEN children_with_label(r.g, node, i + 1, r.ids, None)
                 ELSE children_with_label(r.g, node, i + 1, current_ids, current_label)
         IN rest(dispatch_node(g, node.kids[i], current_ids, current_label))

RECURSIVE traverse_block_from(_, _, _, _)
traverse_block_from(g, block_node, i, prev_ids) ==
    IF i > Len(block_node.kids) THEN [g |-> g, ids |-> prev_ids]
    ELSE IF ~block_node.kids[i].named
    THEN traverse_block_from(g, block_node, i + 1, prev_ids)
    ELSE LET rest(r) ==
                 IF r.ids # prev_ids
                 THEN traverse_block_from(r.g, block_node, i + 1, r.ids)
                 ELSE traverse_block_from(r.g, block_node, i + 1, prev_ids)
         IN rest(dispatch_node(g, block_node.kids[i], prev_ids, None))

traverse_block(g, block_node, prev_ids) == traverse_block_from(g, block_node, 1, prev_ids)

traverse_node_with_label(g, node, prev_ids, label) ==
    IF node.kind = "block"
    THEN children_with_label(g, node, 1, prev_ids, label)
    ELSE dispatch_node(g, node, prev_ids, label)

process_generic_recursive_with_label(g, node, prev_ids, label) ==
    children_with_label(g, node, 1, prev_ids, label)

\* A variant whose frontier after the statement is that of the else branch.
process_if_else_exits_only(g, node, prev_ids, label) ==
    LET condition_node == Unwrap(ChildByFieldName(node, "condition"))
        found == find_calls_in_node(g, condition_node)
        after == emit_call_nodes(found.g, found.calls, prev_ids, label)
        cond_text == Src(g.source, condition_node)
        clean_cond == ReplaceChar(ReplaceChar(cond_text, 10, B(" ")), 34, B("'"))
        n == next_id(after.g)
        cond_id == n.id
        g1 == Push(n.g, <<NodeLine(cond_id, "diamond", clean_cond, "decision"),
                          ClickLine(cond_id, condition_node.start)>>
                        \o EdgeLines(after.ids, after.label, cond_id))
        consequence == Unwrap(ChildByFieldName(node, "consequence"))
        ended_then == traverse_node_with_label(g1, consequence, <<cond_id>>, Some(B("Yes")))
        alternative == ChildByFieldName(node, "alternative")
        ended_else ==
            IF IsSome(alternative)
            THEN traverse_node_with_label(ended_then.g, Unwrap(alternative),
                                          <<cond_id>>, Some(B("No")))
            ELSE [g |-> ended_then.g, ids |-> <<cond_id>>]
    IN [g |-> ended_else.g, ids |-> ended_else.ids,
        own |-> cond_id, parts |-> <<ended_then.ids, ended_else.ids>>]

\* A variant that keeps the pending label for the edge into the decision
\* node.
process_if_label_kept(g, node, prev_ids, label) ==
    LET condition_node == Unwrap(ChildByFieldName(node, "condition"))
        found == find_calls_in_node(g, condition_node)
        after == emit_call_nodes(found.g, found.calls, prev_ids, label)
        cond_text == Src(g.source, condition_node)
        clean_cond == ReplaceChar(ReplaceChar(cond_text, 10, B(" ")), 34, B("'"))
        n == next_id(after.g)
        cond_id == n.id
        g1 == Push(n.g, <<NodeLine(cond_id, "diamond", clean_cond, "decision"),
                          ClickLine(cond_id, condition_node.start)>>
                        \o EdgeLines(after.ids, label, cond_id))
        consequence == Unwrap(ChildByFieldName(node, "consequence"))
        ended_then == traverse_node_with_label(g1, consequence, <<cond_id>>, Some(B("Yes")))
        alternative == ChildByFieldName(node, "alternative")
        ended_else ==
            IF IsSome(alternative)
            THEN traverse_node_with_label(ended_then.g, Unwrap(alternative),
                                          <<cond_id>>, Some(B("No")))
            ELSE [g |-> ended_then.g, ids |-> <<cond_id>>]
    IN [g |-> ended_else.g, ids |-> ended_then.ids \o ended_else.ids,
        own |-> cond_id, parts |-> <<ended_then.ids, ended_else.ids>>]

process_if_with_label(g, node, prev_ids, label) ==
    LET condition_node == Unwrap(ChildByFieldName(node, "condition"))
        found == find_calls_in_node(g, condition_node)
        after == emit_call_nodes(found.g, found.calls, prev_ids, label)
        cond_text == Src(g.source, condition_node)
        clean_cond == ReplaceChar(ReplaceChar(cond_text, 10, B(" ")), 34, B("'"))
        n == next_id(after.g)
        cond_id == n.id
        g1 == Push(n.g, <<NodeLine(cond_id, "diamond", clean_cond, "decision"),
                          ClickLine(cond_id, condition_node.start)>>
                        \o EdgeLines(after.ids, after.label, cond_id))
        consequence == Unwrap(ChildByFieldName(node, "consequence"))
        ended_then == traverse_node_with_label(g1, consequence, <<cond_id>>, Some(B("Yes")))
        alternative == ChildByFieldName(node, "alternative")
        ended_else ==
            IF IsSome(alternative)
            THEN traverse_node_with_label(ended_then.g, Unwrap(alternative),
                                          <<cond_id>>, Some(B("No")))
            ELSE [g |-> ended_then.g, ids |-> <<cond_id>>]
    IN [g |-> ended_else.g, ids |-> ended_then.ids \o ended_else.ids,
        own |-> cond_id, parts |-> <<ended_then.ids, ended_else.ids>>]

\* A variant in which the loop is left from where its body ended.
process_loop_exits_from_body(g, node, prev_ids, label) ==
    LET safe_text == ReplaceChar(ReplaceChar(loop_text(g, node), 34, B("'")), 10, B(" "))
        cut == Truncate(safe_text, 60, 57)
        display_text == Displayed(cut)
        n == next_id(Panicking(g, cut))
        loop_id == n.id
        g1 == Push(n.g, <<NodeLine(loop_id, "hexagon", display_text, "loop"),
                          ClickLine(loop_id, node.start)>>
                        \o EdgeLines(prev_ids, label, loop_id))
        body == ChildByFieldName(node, "body")
        body_end ==
            IF IsSome(body)
            THEN traverse_node_with_label(g1, Unwrap(body), <<loop_id>>, Some(B("loop body")))
            ELSE [g |-> g1, ids |-> <<loop_id>>]
        RECURSIVE back(_)
        back(i) ==
            IF i > Len(body_end.ids) THEN <<>>
            ELSE (IF body_end.ids[i] # loop_id
                  THEN <<RepeatLine(body_end.ids[i], loop_id)>> ELSE <<>>) \o back(i + 1)
    IN [g |-> Push(body_end.g, back(1)), ids |-> body_end.ids,
        own |-> loop_id, parts |-> <<body_end.ids>>]

\* A variant that draws the repeat edge from the first exit of the body only.
process_loop_one_repeat(g, node, prev_ids, label) ==
    LET safe_text == ReplaceChar(ReplaceChar(loop_text(g, node), 34, B("'")), 10, B(" "))
        cut == Truncate(safe_text, 60, 57)
        display_text == Displayed(cut)
        n == next_id(Panicking(g, cut))
        loop_id == n.id
        g1 == Push(n.g, <<NodeLine(loop_id, "hexagon", display_text, "loop"),
                          ClickLine(loop_id, node.start)>>
                        \o EdgeLines(prev_ids, label, loop_id))
        body == ChildByFieldName(node, "body")
        body_end ==
            IF IsSome(body)
            THEN traverse_node_with_label(g1, Unwrap(body), <<loop_id>>, Some(B("loop body")))
            ELSE [g |-> g1, ids |-> <<loop_id>>]
        RECURSIVE back(_)
        back(i) ==
            IF i > Len(body_end.ids) \/ i > 1 THEN <<>>
            ELSE (IF body_end.ids[i] # loop_id
                  THEN <<RepeatLine(body_end.ids[i], loop_id)>> ELSE <<>>) \o back(i + 1)
    IN [g |-> Push(body_end.g, back(1)), ids |-> <<loop_id>>,
        own |-> loop_id, parts |-> <<body_end.ids>>]

process_loop_with_label(g, node, prev_ids, label) ==
    LET safe_text == ReplaceChar(ReplaceChar(loop_text(g, node), 34, B("'")), 10, B(" "))
        cut == Truncate(safe_text, 60, 57)
        display_text == Displayed(cut)
        n == next_id(Panicking(g, cut))
        loop_id == n.id
        g1 == Push(n.g, <<NodeLine(loop_id, "hexagon", display_text, "loop"),
                          ClickLine(loop_id, node.start)>>
                        \o EdgeLines(prev_ids, label, loop_id))
        body == ChildByFieldName(node, "body")
        body_end ==
            IF IsSome(body)
            THEN traverse_node_with_label(g1, Unwrap(body), <<loop_id>>, Some(B("loop body")))
            ELSE [g |-> g1, ids |-> <<loop_id>>]
        RECURSIVE back(_)
        back(i) ==
            IF i > Len(body_end.ids) THEN <<>>
            ELSE (IF body_end.ids[i] # loop_id
                  THEN <<RepeatLine(body_end.ids[i], loop_id)>> ELSE <<>>) \o back(i + 1)
    IN [g |-> Push(body_end.g, back(1)), ids |-> <<loop_id>>,
        own |-> loop_id, parts |-> <<body_end.ids>>]

\* A variant in which a case starts where the cases before it ended.
process_switch_fall_through(g, node, prev_ids, label) ==
    LET c == ChildByFieldName(node, "condition")
        condition == IF IsSome(c) THEN Src(g.source, Unwrap(c)) ELSE B("...")
        safe_condition == ReplaceChar(ReplaceChar(condition, 34, B("'")), 10, B(" "))
        n == next_id(g)
        switch_id == n.id
        g1 == Push(n.g, <<NodeLine(switch_id, "diamond", B("switch ") \o safe_condition,
                                   "decision"),
                          ClickLine(switch_id, node.start)>>
                        \o EdgeLines(prev_ids, label, switch_id))
        body == ChildByFieldName(node, "body")
        RECURSIVE cases(_, _, _, _)
        cases(i, gi, all_exit_ids, each) ==
            IF i > Len(Unwrap(body).kids)
            THEN [g |-> gi, ids |-> all_exit_ids, parts |-> each]
            ELSE LET child == Unwrap(body).kids[i]
                     safe_case_label ==
                         ReplaceChar(ReplaceChar(case_label(gi, child), 34, B("'")),
                                     10, B(" "))
                     cut == Truncate(safe_case_label, 30, 27)
                     display_label == Displayed(cut)
                     case_exits == traverse_node_with_label(Panicking(gi, cut), child,
                                                            IF all_exit_ids = <<>>
                                                            THEN <<switch_id>>
                                                            ELSE all_exit_ids,
                                                            Some(display_label))
                 IN IF ~child.named THEN cases(i + 1, gi, all_exit_ids, each)
                    ELSE IF Len(case_exits.ids) >= 0
                    THEN cases(i + 1, case_exits.g, all_exit_ids \o case_exits.ids,
                               Append(each, case_exits.ids))
                    ELSE case_exits
        done == IF IsSome(body) THEN cases(1, g1, <<>>, <<>>)
                ELSE [g |-> g1, ids |-> <<>>, parts |-> <<>>]
    IN [g |-> done.g, ids |-> IF done.ids = <<>> THEN <<switch_id>> ELSE done.ids,
        own |-> switch_id, parts |-> done.parts]

process_switch_with_label(g, node, prev_ids, label) ==
    LET c == ChildByFieldName(node, "condition")
        condition == IF IsSome(c) THEN Src(g.source, Unwrap(c)) ELSE B("...")
        safe_condition == ReplaceChar(ReplaceChar(condition, 34, B("'")), 10, B(" "))
        n == next_id(g)
        switch_id == n.id
        g1 == Push(n.g, <<NodeLine(switch_id, "diamond", B("switch ") \o safe_condition,
                                   "decision"),
                          ClickLine(switch_id, node.start)>>
                        \o EdgeLines(prev_ids, label, switch_id))
        body == ChildByFieldName(node, "body")
        RECURSIVE cases(_, _, _, _)
        cases(i, gi, all_exit_ids, each) ==
            IF i > Len(Unwrap(body).kids)
            THEN [g |-> gi, ids |-> all_exit_ids, parts |-> each]
            ELSE LET child == Unwrap(body).kids[i]
                     safe_case_label ==
                         ReplaceChar(ReplaceChar(case_label(gi, child), 34, B("'")),
                                     10, B(" "))
                     cut == Truncate(safe_case_label, 30, 27)
                     display_label == Displayed(cut)
                     case_exits == traverse_node_with_label(Panicking(gi, cut), child,
                                                            <<switch_id>>,
                                                            Some(display_label))
                 IN IF ~child.named THEN cases(i + 1, gi, all_exit_ids, each)
                    ELSE IF Len(case_exits.ids) >= 0
                    THEN cases(i + 1, case_exits.g, all_exit_ids \o case_exits.ids,
                               Append(each, case_exits.ids))
                    ELSE case_exits
        done == IF IsSome(body) THEN cases(1, g1, <<>>, <<>>)
                ELSE [g |-> g1, ids |-> <<>>, parts |-> <<>>]
    IN [g |-> done.g, ids |-> IF done.ids = <<>> THEN <<switch_id>> ELSE done.ids,
        own |-> switch_id, parts |-> done.parts]

\* The history entry of a call of a process_... method that returned r.
Logged(r, node, prev_ids, label) ==
    [g |-> [r.g EXCEPT !.steps =
                Append(@, [kind |-> node.kind, start |-> node.start, end |-> node.end,
                           prev_ids |-> prev_ids, label |-> label, own |-> r.own,
                           parts |-> r.parts, ids |-> r.ids])],
     ids |-> r.ids]

\* The match on node.kind(); the first arm never applies (node_counter is a
\* usize) and has the generator evaluated before the statement is handled.
dispatch_node(g, node, prev_ids, label) ==
    CASE g.node_counter < 0 -> [g |-> g, ids |-> prev_ids]
      [] node.kind \in {"expression_statement", "local_variable_declaration",
                        "return_statement"} ->
            Logged(process_expression_with_label(g, node, prev_ids, label),
                   node, prev_ids, label)
      [] node.kind = "if_statement" ->
            Logged(process_if_with_label(g, node, prev_ids, label),
                   node, prev_ids, label)
      [] node.kind \in {"for_statement", "while_statement", "do_statement",
                        "enhanced_for_statement"} ->
            Logged(process_loop_with_label(g, node, prev_ids, label),
                   node, prev_ids, label)
      [] node.kind \in {"switch_expression", "switch_statement"} ->
            Logged(process_switch_with_label(g, node, prev_ids, label),
                   node, prev_ids, label)
      [] OTHER ->
            process_generic_recursive_with_label(g, node, prev_ids, label)

\* A variant that connects the first node of the frontier alone to the end
\* marker.
generate_method_flow_first_exit(g, method_node, method_name) ==
    LET s == next_id(Push(g, <<SubgraphLine(method_name), DirectionLine>>))
        start_id == s.id
        g1 == Push(s.g, <<NodeLine(start_id, "stadium", method_name, "public")>>)
        body == ChildByFieldName(method_node, "body")
        end_of(end_nodes, e) ==
            Push(e.g, EdgeLines(SubSeq(end_nodes.ids, 1, 1), None, e.id)
                      \o <<NodeLine(e.id, "stadium", B("End of ") \o method_name,
                                    "endNode")>>)
        ended(end_nodes) == end_of(end_nodes, next_id(end_nodes.g))
    IN Push(IF IsSome(body) THEN ended(traverse_block(g1, Unwrap(body), <<start_id>>))
            ELSE g1,
            <<EndLine>>)

generate_method_flow(g, method_node, method_name) ==
    LET s == next_id(Push(g, <<SubgraphLine(method_name), DirectionLine>>))
        start_id == s.id
        g1 == Push(s.g, <<NodeLine(start_id, "stadium", method_name, "public")>>)
        body == ChildByFieldName(method_node, "body")
        end_of(end_nodes, e) ==
            Push(e.g, EdgeLines(end_nodes.ids, None, e.id)
                      \o <<NodeLine(e.id, "stadium", B("End of ") \o method_name,
                                    "endNode")>>)
        ended(end_nodes) == end_of(end_nodes, next_id(end_nodes.g))
    IN Push(IF IsSome(body) THEN ended(traverse_block(g1, Unwrap(body), <<start_id>>))
            ELSE g1,
            <<EndLine>>)

(***************************************************************************)
(* JavaParser::generate_mermaid and generate_mermaid_filtered.             *)
(***************************************************************************)
RECURSIVE find_node_recursive(_, _, _)
find_node_recursive(node, start, end) ==
    IF node.start = start /\ node.end = end THEN Some(node)
    ELSE LET RECURSIVE loop(_)
             loop(i) ==
                 IF i > Len(node.kids) THEN None
                 ELSE LET child == node.kids[i]
                          found == find_node_recursive(child, start, end)
                      IN IF child.end > start /\ child.start < end /\ IsSome(found)
                         THEN found
                         ELSE loop(i + 1)
         IN loop(1)

find_node_by_range(root, start, end) == find_node_recursive(root, start, end)

\* Vec::contains
SeqContains(seq, x) == \E i \in 1..Len(seq) : seq[i] = x

\* A variant that treats a name the registry lacks like no name.
target_methods_unknown_as_none(g, method_name) ==
    IF IsSome(method_name) /\ Unwrap(method_name) \in DOMAIN g.nodes
    THEN <<Unwrap(method_name)>>
    ELSE SortedSeq({name \in DOMAIN g.nodes :
                       \/ SeqContains(g.nodes[name].modifiers, B("public"))
                       \/ SeqContains(g.nodes[name].modifiers, B("protected"))})

\* A variant that selects the public methods only.
target_methods_public_only(g, method_name) ==
    IF IsSome(method_name)
    THEN IF Unwrap(method_name) \in DOMAIN g.nodes THEN <<Unwrap(method_name)>> ELSE <<>>
    ELSE SortedSeq({name \in DOMAIN g.nodes :
                       SeqContains(g.nodes[name].modifiers, B("public"))})

\* The methods to render: the named one when the registry has it, nothing
\* when it has not; without a name the public and protected ones, sorted.
target_methods(g, method_name) ==
    IF IsSome(method_name)
    THEN IF Unwrap(method_name) \in DOMAIN g.nodes THEN <<Unwrap(method_name)>> ELSE <<>>
    ELSE SortedSeq({name \in DOMAIN g.nodes :
                       \/ SeqContains(g.nodes[name].modifiers, B("public"))
                       \/ SeqContains(g.nodes[name].modifiers, B("protected"))})

\* for method_name in target_methods { ... generate_method_flow ... }
RECURSIVE expand_methods(_, _, _, _)
expand_methods(gen, root_node, targets, i) ==
    IF i > Len(targets) THEN gen
    ELSE LET node_info == gen.graph.nodes[targets[i]]
             method_node == find_node_by_range(root_node, node_info.range[1],
                                               node_info.range[2])
         IN expand_methods(IF targets[i] \in DOMAIN gen.graph.nodes /\ IsSome(method_node)
                           THEN generate_method_flow(gen, Unwrap(method_node), targets[i])
                           ELSE gen,
                           root_node, targets, i + 1)

\* for method_name in &target_methods { one placeholder node }
RECURSIVE collapse_methods(_, _, _)
collapse_methods(gen, targets, i) ==
    IF i > Len(targets) THEN gen
    ELSE LET n == next_id(gen)
         IN collapse_methods(Push(n.g, <<NodeLine(n.id, "stadium", targets[i], "public")>>),
                             targets, i + 1)

FlowGenerator(src, g, ignored_variables, ignored_services, collapse_details) ==
    [source |-> src, graph |-> g, output |-> <<HeaderLine>>, node_counter |-> 0,
     ignored_variables |-> ignored_variables, ignored_services |-> ignored_services,
     collapse_details |-> collapse_details, detected_externals |-> {},
     panicked |-> FALSE, steps |-> <<>>]

\* A variant that starts with an empty list of ignored services.
generate_mermaid_nothing_ignored(g, src, root_node, method_name) ==
    LET generator == FlowGenerator(src, g, <<>>, <<>>, FALSE)
        finish(done) ==
            [output |-> done.output \o Styles, panicked |-> done.panicked,
             steps |-> done.steps]
    IN finish(expand_methods(generator, root_node, target_methods(g, method_name), 1))

\* [output, panicked, steps]: the lines of the diagram text generate_mermaid
\* returns, and whether a slice panicked before it could return.
generate_mermaid(g, src, root_node, method_name) ==
    LET generator == FlowGenerator(src, g, <<>>, <<B("System.out"), B("System.err")>>, FALSE)
        finish(done) ==
            [output |-> done.output \o Styles, panicked |-> done.panicked,
             steps |-> done.steps]
    IN finish(expand_methods(generator, root_node, target_methods(g, method_name), 1))

\* A variant that never takes the collapse branch.
generate_mermaid_filtered_expanded(g, src, root_node, method_name, ignored_variables, ignored_services, collapse_details) ==
    LET generator == FlowGenerator(src, g, ignored_variables, ignored_services,
                                   collapse_details)
        finish(done) ==
            [output |-> done.output \o Styles,
             detected_externals |-> done.detected_externals,
             panicked |-> done.panicked, steps |-> done.steps]
    IN finish(expand_methods(generator, root_node, target_methods(g, method_name), 1))

\* A variant that takes the collapse branch also for a named target.
generate_mermaid_filtered_collapse_any(g, src, root_node, method_name, ignored_variables, ignored_services, collapse_details) ==
    LET generator == FlowGenerator(src, g, ignored_variables, ignored_services,
                                   collapse_details)
        targets == target_methods(g, method_name)
        finish(done) ==
            [output |-> done.output \o Styles,
             detected_externals |-> done.detected_externals,
             panicked |-> done.panicked, steps |-> done.steps]
    IN finish(IF collapse_details
              THEN collapse_methods(generator, targets, 1)
              ELSE expand_methods(generator, root_node, targets, 1))

\* [output, detected_externals, panicked, steps]: the lines of
\* MermaidResult.mermaid, the set that MermaidResult.external_services lists,
\* and whether a slice panicked before the result could be returned.
generate_mermaid_filtered(g, src, root_node, method_name, ignored_variables, ignored_services, collapse_details) ==
    LET generator == FlowGenerator(src, g, ignored_variables, ignored_services,
                                   collapse_details)
        targets == target_methods(g, method_name)
        finish(done) ==
            [output |-> done.output \o Styles,
             detected_externals |-> done.detected_externals,
             panicked |-> done.panicked, steps |-> done.steps]
    IN finish(IF collapse_details /\ ~IsSome(method_name)
              THEN collapse_methods(generator, targets, 1)
              ELSE expand_methods(generator, root_node, targets, 1))

\* HashSet::into_iter().collect(): the elements in an order the hasher picks.
Orders(S) == {p \in [1..Cardinality(S) -> S] : \A x \in S : \E i \in DOMAIN p : p[i] = x}

(***************************************************************************)
(* The source units the model is run on.                                   *)
(***************************************************************************)
\* The longest statement sequence of a method body made of call statements.
MaxStmts == 2
\* The most case groups of a generated switch.
MaxGroups == 2
\* The longest sequence of invocation statements of declared methods.
MaxCalls == 3
\* How many constructs are wrapped around a generated control statement.
MaxNest == 1

RECURSIVE SeqsUpTo(_, _)
SeqsUpTo(S, n) ==
    IF n = 0 THEN {<<>>}
    ELSE LET shorter == SeqsUpTo(S, n - 1)
         IN shorter \cup {Append(q, x) : q \in {p \in shorter : Len(p) = n - 1}, x \in S}

\* Statements with calls: a(); this.b(); r.f(); rs.g("x"); System.out.println(a());
\* u(); a().h(); int x = r.d.q(); this.z(); return rs.g("x");
A == ExprStmt(Call("a", <<>>))
ThisB == ExprStmt(CallOn(This, "b", <<>>))
RF == ExprStmt(CallOn(Ident("r"), "f", <<>>))
RsG == ExprStmt(CallOn(Ident("rs"), "g", <<StrLit(B("x"))>>))
Println ==
    ExprStmt(CallOn(FieldAccess(Ident("System"), "out"), "println", <<Call("a", <<>>)>>))
U == ExprStmt(Call("u", <<>>))
AH == ExprStmt(CallOn(Call("a", <<>>), "h", <<>>))
VarQ == LocalVar("int", "x", CallOn(FieldAccess(Ident("r"), "d"), "q", <<>>))
ThisZ == ExprStmt(CallOn(This, "z", <<>>))
RetRsG == Return(CallOn(Ident("rs"), "g", <<StrLit(B("x"))>>))
\* x = 1; throw a();
Assign == ExprStmt(Binary(Ident("x"), "=", IntLit("1")))
ThrowA == Throw(Call("a", <<>>))

\* b(); m();
CallB == ExprStmt(Call("b", <<>>))
CallM == ExprStmt(Call("m", <<>>))

CallStmts == {A, ThisB, RF, RsG, Println, U, AH, VarQ, ThisZ, RetRsG}

\* Conditions: x > 0, r.v(), a(), r.v() && a()
Cond0 == Binary(Ident("x"), ">", IntLit("0"))
CondRV == CallOn(Ident("r"), "v", <<>>)
CondA == Call("a", <<>>)
CondBoth == Binary(CondRV, "&&", CondA)

\* The statement lists of a branch, a loop body or a case group.
InnerBlocks == {<<>>, <<A>>, <<RF, ThisB>>, <<ReturnVoid>>}
\* A group without statements is the last of its switch: the labels of a
\* group that is followed by another label belong to one group.
GroupBodies == {<<A, Break>>, <<RF>>, <<Break>>}
GroupSeqs ==
    {<<>>} \cup {Append(q, x) : q \in SeqsUpTo(GroupBodies, MaxGroups - 1),
                                x \in GroupBodies \cup {<<>>}}

IfStmts ==
    {If(Cond0, Block(b)) : b \in InnerBlocks}
    \cup {If(CondRV, Block(b)) : b \in {<<>>, <<A>>}}
    \cup {IfElse(Cond0, Block(b1), Block(b2)) : b1 \in InnerBlocks, b2 \in InnerBlocks}
    \cup {If(Cond0, A), IfElse(Cond0, Block(<<A>>), If(CondA, Block(<<RF>>))),
          If(CondBoth, Block(<<A>>))}

LoopStmts ==
    {While(CondA, Block(b)) : b \in InnerBlocks}
    \cup {DoWhile(Block(b), Cond0) : b \in InnerBlocks}
    \cup {For(LocalVar("int", "i", IntLit("0")), Binary(Ident("i"), "<", IntLit("9")),
              Node("update_expression", <<Ident("i"), Tok("++")>>), Block(b)) :
          b \in InnerBlocks}
    \cup {ForEach("T", "e", Ident("es"), Block(b)) : b \in InnerBlocks}
    \cup {While(Cond0, A)}

\* switch (k) { case 1: ... case 2: ... }
Cases(bodies) ==
    Switch(Ident("k"),
           [i \in 1..Len(bodies) |-> Group(CaseLabel(IntLit(ToString(i))), bodies[i])])

SwitchStmts ==
    {Cases(bodies) : bodies \in GroupSeqs}
    \cup {Switch(Ident("k"),
                 <<Group2(CaseLabel(IntLit("1")), CaseLabel(IntLit("2")), <<A>>),
                   Group(DefaultLabel, <<RF, ReturnVoid>>)>>),
          Switch(CondRV,
                 <<Group(CaseLabel(Ident("A_CONSTANT_WITH_A_LONG_NAME_X")), <<A>>),
                   Group(CaseLabel(StrLit(B("s"))), <<RF>>)>>),
          Switch(Ident("k"), <<Rule(IntLit("1"), A)>>),
          Switch(CondA, <<Group(CaseLabel(IntLit("1")), <<RF>>)>>)}

ControlStmts == IfStmts \cup LoopStmts \cup SwitchStmts

Wrappers(s) ==
    {If(Cond0, Block(<<s>>)),
     While(Cond0, Block(<<A, s>>)),
     IfElse(CondRV, Block(<<RF>>), Block(<<s, A>>)),
     Switch(Ident("k"),
            <<Group(CaseLabel(IntLit("1")), <<s, Break>>), Group(DefaultLabel, <<A>>)>>)}

RECURSIVE Nested(_)
Nested(d) ==
    IF d = 0 THEN ControlStmts
    ELSE Nested(d - 1) \cup UNION {Wrappers(s) : s \in Nested(d - 1)}

\* class C with the public method m of the given body, a private method a
\* and a protected method b that calls a
Unit(body) ==
    Program(<<Class("C", <<Method(<<"public">>, "void", "m", Block(body)),
                           Method(<<"private">>, "void", "a", Block(<<>>)),
                           Method(<<"protected", "static">>, "void", "b",
                                  Block(<<A>>))>>)>>)

CallUnits == {Unit(body) : body \in SeqsUpTo(CallStmts, MaxStmts)}

\* Bodies that are a sequence of invocation statements of declared methods.
OrderUnits == {Unit(body) : body \in SeqsUpTo({A, CallB, CallM}, MaxCalls)}

FlowUnits ==
    {Unit(<<s>>) : s \in ControlStmts}
    \cup {Unit(<<s, A>>) : s \in Nested(MaxNest)}
    \cup {Unit(<<Assign, A>>), Unit(<<ThrowA>>), Unit(<<ReturnVoid, A>>)}

\* Declarations: the methods m, a and B with every choice of modifiers; a
\* name declared twice; a method without a body; a nested class; no method.
ModifierLists == {<<"public">>, <<"protected", "static">>, <<"private">>, <<>>}

DeclUnits ==
    {Program(<<Class("C", <<Method(m1, "void", "m", Block(<<A>>)),
                            Method(m2, "void", "a", Block(<<>>)),
                            Method(m3, "void", "B", Block(<<RF>>))>>)>>) :
        m1 \in ModifierLists, m2 \in ModifierLists, m3 \in ModifierLists}
    \cup {Program(<<Class("C", <<Method(<<"public">>, "void", "m", Block(<<A>>)),
                                 Method(<<"private">>, "void", "a", Block(<<>>)),
                                 Method(<<"private">>, "int", "m", Block(<<RF>>))>>)>>),
          Program(<<Class("C", <<MethodNoBody(<<"public", "abstract">>, "void", "m"),
                                 Method(<<"protected">>, "void", "a", Block(<<RF>>))>>)>>),
          Program(<<Class("C", <<Method(<<"public">>, "void", "m", Block(<<A>>)),
                                 Class("D", <<Method(<<"public">>, "void", "a",
                                                     Block(<<ExprStmt(Call("m", <<>>))>>))>>)
                                 >>)>>),
          Program(<<Class("C", <<>>)>>)}

\* A name declared more than once: twice in a class, in a class and in a
\* nested class that comes before or after another method, three times.
DuplicateUnits ==
    {Program(<<Class("C", <<Method(<<>>, "void", "m", Block(<<>>)),
                            Method(<<"public">>, "void", "m", Block(<<A, CallM>>)),
                            Method(<<>>, "void", "a", Block(<<>>))>>)>>),
     Program(<<Class("C", <<Method(<<"public">>, "void", "m", Block(<<A>>)),
                            Class("D", <<Method(<<"protected">>, "void", "m",
                                                Block(<<CallM, RF>>))>>),
                            Method(<<"private">>, "void", "a", Block(<<>>))>>)>>),
     Program(<<Class("C", <<Class("D", <<Method(<<"protected">>, "void", "m",
                                                Block(<<CallM>>))>>),
                            Method(<<"private">>, "void", "a", Block(<<>>)),
                            Method(<<"public">>, "void", "m", Block(<<A, A>>))>>)>>),
     Program(<<Class("C", <<Method(<<"public">>, "void", "m", Block(<<A>>)),
                            Method(<<"private">>, "void", "m", Block(<<>>)),
                            Method(<<"protected">>, "int", "m", Block(<<ThisB, CallM>>)),
                            Method(<<"private">>, "void", "b", Block(<<>>))>>)>>)}

\* Texts in which single bytes matter.  The characters U+65E5 U+8A9E (three
\* bytes each), two characters U+007F (one byte each), the no-break space
\* U+00A0 and the names U+00FC and U+00E9 a.
Nichigo == <<230, 151, 165, 232, 170, 158>>
Deletes == <<127, 127>>
NoBreakSpace == <<194, 160>>
UUmlaut == <<195, 188>>
EAcuteA == <<195, 169, 97>>

\* while (v...v == "<quoted> cut") { a(); } with a name of n letters: with
\* 44 letters byte offset 57 of the header is after the first byte of the
\* quoted text, with 42 it is after the third.
LongCond(n, quoted) ==
    Binary(Leaf("identifier", [i \in 1..n |-> 118]), "==", StrLit(quoted \o B(" cut")))

\* case "a...a<quoted> cut": with n letters; with 20 letters byte offset 27
\* of the label is after the first byte of the quoted text, with 18 it is
\* after the third.
LongCase(n, quoted) ==
    Node("switch_label",
         <<Tok("case"), Sp(StrLit([i \in 1..n |-> 97] \o quoted \o B(" cut")))>>)

\* case 1 -> <gap> a();  with an optional comment after the arrow
RuleWithGap(comment, gap) ==
    Switch(Ident("k"),
           <<Node("switch_rule",
                  <<CaseLabel(IntLit("1")), Sp(Tok("->"))>>
                  \o (IF comment = <<>> THEN <<>>
                      ELSE <<Sp(Leaf("line_comment", comment))>>)
                  \o <<After(gap, A)>>)>>)

\* Loop headers and case labels that are cut inside a character, just
\* after one and between two characters of one byte; switch rules whose
\* first line ends in a form feed, in a carriage return and in a comment
\* that ends in a no-break space; methods whose names are ordered by their
\* bytes.
ByteUnits ==
    {Unit(<<While(LongCond(n, Nichigo), Block(<<A>>))>>) : n \in {42, 44}}
    \cup {Unit(<<Switch(Ident("k"), <<Group(LongCase(n, Nichigo), <<A, Break>>)>>)>>) :
             n \in {18, 20}}
    \cup {Unit(<<While(LongCond(44, Deletes), Block(<<A>>))>>),
          Unit(<<Switch(Ident("k"), <<Group(LongCase(20, Deletes), <<A, Break>>)>>)>>),
          Unit(<<RuleWithGap(<<>>, B("\f\n "))>>),
          Unit(<<RuleWithGap(<<>>, B("\r\n "))>>),
          Unit(<<RuleWithGap(B("// x") \o NoBreakSpace, B("\n "))>>),
          Program(<<Class("C", <<Method(<<"public">>, "void", "b", Block(<<>>)),
                                 Method(<<"protected">>, "void", "_c", Block(<<>>)),
                                 Method(<<"public">>, "void", "Z", Block(<<>>)),
                                 Method(<<"public">>, "void", "$a", Block(<<>>))>>)>>),
          Program(<<Class("C", <<Renamed(Method(<<"public">>, "void", "u",
                                                Block(<<RF>>)), UUmlaut),
                                 Renamed(Method(<<"public">>, "void", "e",
                                                Block(<<RsG>>)), EAcuteA)>>)>>)}

Units ==
    CallUnits \cup OrderUnits \cup FlowUnits \cup DeclUnits \cup DuplicateUnits
    \cup ByteUnits

(***************************************************************************)
(* The state machine: a source unit is parsed, then rendered once, by      *)
(* generate_mermaid or by generate_mermaid_filtered.  A render that panics *)
(* returns nothing: pc is "panicked" and there is no diagram.              *)
(***************************************************************************)
NoGraph == [nodes |-> <<>>, calls |-> <<>>]
NoRequest == [fn |-> "", method_name |-> None, ignored_variables |-> <<>>,
              ignored_services |-> <<>>, collapse_details |-> FALSE]
NoResult == [mermaid |-> <<>>, external_services |-> <<>>]

\* The method names a caller asks for: none, a declared one, an unknown one.
MethodNames == {None, Some(B("m")), Some(B("a")), Some(B("zz"))}

\* The ignore lists a caller passes: <<ignored_variables, ignored_services>>.
IgnoreLists ==
    {<<<<>>, <<>>>>, <<<<B("r")>>, <<>>>>, <<<<>>, <<B("r")>>>>,
     <<<<>>, <<B("System.out"), B("System.err")>>>>}

Init ==
    /\ \E u \in Units : tree = Layout(u, 0) /\ source = TextOf(u)
    /\ graph = NoGraph
    /\ request = NoRequest
    /\ result = NoResult
    /\ diagram = <<>>
    /\ steps = <<>>
    /\ pc = "start"

Parse ==
    /\ pc = "start"
    /\ graph' = parse(source, tree)
    /\ pc' = "parsed"
    /\ UNCHANGED <<tree, source, request, result, diagram, steps>>

GenerateMermaid ==
    /\ pc = "parsed"
    /\ \E m \in MethodNames :
        \E out \in {generate_mermaid(graph, source, tree, m)} :
          \E panicked \in {out.panicked} :
           /\ request' = [fn |-> "generate_mermaid", method_name |-> m,
                          ignored_variables |-> <<>>,
                          ignored_services |-> <<B("System.out"), B("System.err")>>,
                          collapse_details |-> FALSE]
           /\ diagram' = IF panicked THEN <<>> ELSE out.output
           /\ steps' = IF panicked THEN <<>> ELSE out.steps
           /\ result' = IF panicked THEN NoResult
                         ELSE [mermaid |-> TextOfLines(out.output),
                               external_services |-> <<>>]
           /\ pc' = IF panicked THEN "panicked" ELSE "rendered"
    /\ UNCHANGED <<tree, source, graph>>

GenerateMermaidFiltered ==
    /\ pc = "parsed"
    /\ \E m \in MethodNames, ig \in IgnoreLists, cd \in BOOLEAN :
        /\ cd => ig = <<<<>>, <<>>>>
        /\ \E out \in {generate_mermaid_filtered(graph, source, tree, m, ig[1], ig[2], cd)} :
            \E panicked \in {out.panicked} :
              /\ request' = [fn |-> "generate_mermaid_filtered", method_name |-> m,
                             ignored_variables |-> ig[1], ignored_services |-> ig[2],
                             collapse_details |-> cd]
              /\ diagram' = IF panicked THEN <<>> ELSE out.output
              /\ steps' = IF panicked THEN <<>> ELSE out.steps
              /\ \E order \in Orders(IF panicked THEN {} ELSE out.detected_externals) :
                   result' = IF panicked THEN NoResult
                             ELSE [mermaid |-> TextOfLines(out.output),
                                   external_services |-> order]
              /\ pc' = IF panicked THEN "panicked" ELSE "rendered"
    /\ UNCHANGED <<tree, source, graph>>

Next == Parse \/ GenerateMermaid \/ GenerateMermaidFiltered

Spec == Init /\ [][Next]_vars

(***************************************************************************)
(* Reading the syntax tree and a diagram.                                  *)
(***************************************************************************)
\* Every node of the subtree rooted at n.
RECURSIVE Nodes(_)
Nodes(n) == {n} \cup UNION {Nodes(n.kids[i]) : i \in 1..Len(n.kids)}

Range(q) == {q[i] : i \in 1..Len(q)}

\* The invocations below n: start offset, source text, method name and the
\* text of the receiver (None without one).
Invocations(n) ==
    {[start |-> c.start,
      text |-> Src(source, c),
      name |-> Src(source, Unwrap(ChildByFieldName(c, "name"))),
      object |-> IF IsSome(ChildByFieldName(c, "object"))
                 THEN Some(Src(source, Unwrap(ChildByFieldName(c, "object"))))
                 ELSE None] :
        c \in {x \in Nodes(n) : x.kind = "method_invocation"}}

\* The text before the first '.', the whole text when it has none.
UpToDot(t) ==
    LET dots == {i \in 1..Len(t) : t[i] = 46}
    IN IF dots = {} THEN t
       ELSE SubSeq(t, 1, (CHOOSE i \in dots : \A j \in dots : i <= j) - 1)

\* The call nodes of a diagram in emission order: label, style and the
\* offset of the click directive that follows the node.
CallNodes(d) ==
    LET at == SelectSeq([i \in 1..Len(d) |-> i],
                        LAMBDA i : d[i].t = "rect" /\ d[i].cls \in {"internal", "external"})
    IN [k \in 1..Len(at) |->
            [text |-> d[at[k]].text, cls |-> d[at[k]].cls, off |-> d[at[k] + 1].off]]

\* The invocation a call node stands for.
InvocationOf(c) ==
    CHOOSE inv \in Invocations(tree) :
        /\ inv.start = c.off
        /\ IF c.cls = "external"
           THEN c.text = B("External: ") \o ReplaceChar(inv.text, 34, B("'"))
           ELSE c.text = inv.name

Rendered == pc = "rendered"
Filtered == Rendered /\ request.fn = "generate_mermaid_filtered"

\* The rendering of the same request with empty ignore lists.
Unfiltered ==
    generate_mermaid_filtered(graph, source, tree, request.method_name, <<>>, <<>>,
                              request.collapse_details)

(***************************************************************************)
(* C1: for a targeted method and any ignore lists, the external_services   *)
(* that generate_mermaid_filtered returns are the ones it returns with     *)
(* empty ignore lists; a filtered call still contributes its receiver.     *)
(***************************************************************************)
C1_ExternalsIgnoreFilters ==
    (Filtered /\ IsSome(request.method_name))
        => Range(result.external_services) = Unfiltered.detected_externals

(***************************************************************************)
(* C2: with ignored_services = [s] and no ignored variable, the call nodes *)
(* of the diagram are those of the unfiltered diagram without the external *)
(* nodes whose receiver text before its first '.' is s; every other call   *)
(* node stays, with the same label and style.                              *)
(***************************************************************************)
C2_ServiceFilterRemovesOnlyItsPrefix ==
    (/\ Filtered
     /\ ~request.collapse_details
     /\ request.ignored_variables = <<>>
     /\ Len(request.ignored_services) = 1)
        => LET s == request.ignored_services[1]
               Kept(c) == ~(/\ c.cls = "external"
                            /\ IsSome(InvocationOf(c).object)
                            /\ UpToDot(Unwrap(InvocationOf(c).object)) = s)
           IN CallNodes(diagram) = SelectSeq(CallNodes(Unfiltered.output), Kept)

(***************************************************************************)
(* Return statements.                                                      *)
(***************************************************************************)
\* The node of the tree that a history entry is about.
NodeOf(e) ==
    CHOOSE x \in Nodes(tree) : x.kind = e.kind /\ x.start = e.start /\ x.end = e.end

\* should_ignore: the invocation has a receiver that an entry of the
\* request's ignore lists matches.
IgnoreMatches(inv) ==
    /\ IsSome(inv.object)
    /\ \/ \E svc \in Range(request.ignored_services) :
              StartsWith(inv.text, svc) \/ Unwrap(inv.object) = svc
       \/ \E var \in Range(request.ignored_variables) :
              Unwrap(inv.object) = var \/ StartsWith(Unwrap(inv.object), var \o B("."))

\* The nodes a statement adds to the diagram, in emission order: the node
\* lines whose click directive points into the statement.
NodesWithin(e) ==
    LET at == SelectSeq([i \in 1..Len(diagram) |-> i],
                        LAMBDA i : /\ diagram[i].t = "click"
                                   /\ diagram[i].off >= e.start
                                   /\ diagram[i].off < e.end)
    IN [k \in 1..Len(at) |-> diagram[at[k] - 1]]

ReturnSteps == {i \in 1..Len(steps) : steps[i].kind = "return_statement"}

IsReturnNode(l, e) ==
    /\ l.t = "rect"
    /\ l.cls = ""
    /\ l.text = ReplaceChar(Src(source, NodeOf(e)), 34, B("'"))
    /\ e.ids = <<l.id>>

(***************************************************************************)
(* C3 as stated: a return statement adds exactly one node to the diagram,  *)
(* the node carrying the statement's text; invocations in the returned     *)
(* expression get no node of their own.                                    *)
(***************************************************************************)
C3_ReturnAddsOneNode ==
    Rendered =>
        \A i \in ReturnSteps :
            /\ Len(NodesWithin(steps[i])) = 1
            /\ IsReturnNode(NodesWithin(steps[i])[1], steps[i])

(***************************************************************************)
(* C3 as amended: a return statement is rendered as one return node        *)
(* carrying the statement's text with " replaced by ', after one call node *)
(* for every invocation of the returned expression that no ignore entry    *)
(* matches: with k such invocations the statement adds k + 1 nodes.        *)
(***************************************************************************)
C3_ReturnNodeFollowsItsCalls ==
    Rendered =>
        \A i \in ReturnSteps :
            LET e == steps[i]
                added == NodesWithin(e)
                shown == {inv \in Invocations(NodeOf(e)) : ~IgnoreMatches(inv)}
            IN /\ Len(added) = Cardinality(shown) + 1
               /\ IsReturnNode(added[Len(added)], e)
               /\ \A k \in 1..(Len(added) - 1) :
                      /\ added[k].t = "rect"
                      /\ added[k].cls \in {"internal", "external"}

\* A rendered `return rs.g("x");`: a call node, then the return node.
C3_Witness ==
    /\ Rendered
    /\ \E i \in ReturnSteps :
          /\ Len(NodesWithin(steps[i])) = 2
          /\ NodesWithin(steps[i])[1].text = B("External: rs.g('x')")
          /\ NodesWithin(steps[i])[2].text = B("return rs.g('x');")

(***************************************************************************)
(* Target selection and collapse mode.                                     *)
(***************************************************************************)
\* The methods of the registry declared public or protected.
Eligible ==
    {name \in DOMAIN graph.nodes :
        \E i \in 1..Len(graph.nodes[name].modifiers) :
            graph.nodes[name].modifiers[i] \in {B("public"), B("protected")}}

\* The methods a diagram shows, in order: the labels of its start markers
\* (of its placeholders in collapse mode).
MethodsShown(d) ==
    LET at == SelectSeq([i \in 1..Len(d) |-> i],
                        LAMBDA i : d[i].t = "stadium" /\ d[i].cls = "public")
    IN [k \in 1..Len(at) |-> d[at[k]].text]

UnknownTarget ==
    /\ Rendered
    /\ IsSome(request.method_name)
    /\ Unwrap(request.method_name) \notin DOMAIN graph.nodes

(***************************************************************************)
(* C4 as stated: with a target name that is not in the registry, render    *)
(* shows every public or protected method, in ascending name order, as it  *)
(* does without a target.                                                  *)
(***************************************************************************)
C4_UnknownTargetRendersEligible ==
    UnknownTarget =>
        /\ Range(MethodsShown(diagram)) = Eligible
        /\ Len(MethodsShown(diagram)) = Cardinality(Eligible)

(***************************************************************************)
(* C4 as amended: with a target name that is not in the registry, render   *)
(* shows no method: the diagram is the header line followed by the style   *)
(* declarations, and generate_mermaid_filtered returns no external service.*)
(***************************************************************************)
C4_UnknownTargetRendersNothing ==
    UnknownTarget =>
        /\ diagram = <<HeaderLine>> \o Styles
        /\ result.external_services = <<>>

\* An unknown target name while the unit has public or protected methods.
C4_Witness == UnknownTarget /\ Eligible # {} /\ MethodsShown(diagram) = <<>>

\* The expanded rendering of all eligible methods under the ignore lists of
\* the request, and its text when that call returns.
ExpandedRun ==
    generate_mermaid_filtered(graph, source, tree, None, request.ignored_variables,
                              request.ignored_services, FALSE)

ExpandedText == TextOfLines(ExpandedRun.output)

CollapsedAll == Filtered /\ request.collapse_details /\ ~IsSome(request.method_name)

(***************************************************************************)
(* C5 as stated: without a target, the text rendered with collapse_details *)
(* is strictly shorter than the text that the call without it returns,     *)
(* also when no method is public or protected.                             *)
(***************************************************************************)
C5_CollapsedAlwaysShorter ==
    (CollapsedAll /\ ~ExpandedRun.panicked) => Len(result.mermaid) < Len(ExpandedText)

(***************************************************************************)
(* C5 as amended: without a target, when the call without collapse_details *)
(* returns a text, the text rendered with collapse_details is strictly     *)
(* shorter than it when some method is public or protected; when none is,  *)
(* the two texts are the same.                                             *)
(***************************************************************************)
C5_CollapsedShorterWhenEligible ==
    (CollapsedAll /\ ~ExpandedRun.panicked) =>
        IF Eligible # {} THEN Len(result.mermaid) < Len(ExpandedText)
        ELSE result.mermaid = ExpandedText

\* A collapsed rendering of a unit with two or more eligible methods whose
\* expanded rendering returns.
C5_Witness ==
    /\ CollapsedAll
    /\ ~ExpandedRun.panicked
    /\ Cardinality(Eligible) >= 2
    /\ Len(result.mermaid) < Len(ExpandedText)

(***************************************************************************)
(* C6: without a target, render shows exactly the methods whose modifiers  *)
(* contain public or protected, each once and in ascending name order;     *)
(* with a target name of the registry, it shows that method alone.         *)
(***************************************************************************)
C6_VisibilityFilter ==
    Rendered =>
        LET shown == MethodsShown(diagram)
        IN IF ~IsSome(request.method_name)
           THEN /\ Range(shown) = Eligible
                /\ \A i, j \in 1..Len(shown) : i < j => StrLess(shown[i], shown[j])
           ELSE Unwrap(request.method_name) \in DOMAIN graph.nodes
                    => shown = <<Unwrap(request.method_name)>>

\* No target; a protected method is shown and a private and a
\* package-private one are left out.
C6_Witness ==
    /\ Rendered
    /\ ~IsSome(request.method_name)
    /\ \E p \in Eligible : B("public") \notin Range(graph.nodes[p].modifiers)
    /\ \E q \in DOMAIN graph.nodes : graph.nodes[q].modifiers = <<B("private")>>
    /\ \E q \in DOMAIN graph.nodes : graph.nodes[q].modifiers = <<>>
    /\ Range(MethodsShown(diagram)) = Eligible

(***************************************************************************)
(* Classification of invocations.                                          *)
(***************************************************************************)
\* The declarations of the methods the diagram shows expanded.
ShownDeclarations ==
    IF Rendered /\ ~(request.collapse_details /\ ~IsSome(request.method_name))
    THEN {x \in Nodes(tree) :
            \E k \in 1..Len(MethodsShown(diagram)) :
                /\ x.kind = "method_declaration"
                /\ <<x.start, x.end>> = graph.nodes[MethodsShown(diagram)[k]].range}
    ELSE {}

\* Every invocation in the shown methods.
AllInvocations == UNION {Invocations(m) : m \in ShownDeclarations}

\* The invocations in the statements that render their calls: expression
\* statements, local variable declarations, return statements, and the
\* conditions of if statements.
StatementInvocations ==
    UNION {UNION {IF x.kind \in {"expression_statement", "local_variable_declaration",
                                 "return_statement"}
                  THEN Invocations(x)
                  ELSE IF x.kind = "if_statement"
                  THEN Invocations(Unwrap(ChildByFieldName(x, "condition")))
                  ELSE {} : x \in Nodes(m)} : m \in ShownDeclarations}

NoIgnoreMatch == \A inv \in AllInvocations : ~IgnoreMatches(inv)

HasCallNode(inv, label, style) ==
    \E k \in 1..Len(CallNodes(diagram)) :
        CallNodes(diagram)[k] = [text |-> label, cls |-> style, off |-> inv.start]

IsExternalByReceiver(inv) == IsSome(inv.object) /\ Unwrap(inv.object) # B("this")

IsInternalByClaim(inv) ==
    \/ IsSome(inv.object) /\ Unwrap(inv.object) = B("this")
    \/ ~IsSome(inv.object) /\ inv.name \in DOMAIN graph.nodes

(***************************************************************************)
(* C7 as stated: when no ignore entry matches, every invocation with a     *)
(* receiver other than this has a node labelled `External: ` followed by   *)
(* the invocation text, in the external style; every invocation with the   *)
(* receiver this, or without receiver and with a declared name, has a node *)
(* labelled with the method name, in the internal style.                   *)
(***************************************************************************)
C7_EveryInvocationClassified ==
    (Rendered /\ NoIgnoreMatch) =>
        \A inv \in AllInvocations :
            /\ IsExternalByReceiver(inv)
                   => HasCallNode(inv, B("External: ") \o inv.text, "external")
            /\ IsInternalByClaim(inv) => HasCallNode(inv, inv.name, "internal")

(***************************************************************************)
(* C7 as amended: the same for the invocations inside an expression        *)
(* statement, a local variable declaration, a return statement or an if    *)
(* condition, the external label carrying the invocation text with every   *)
(* double quote replaced by a single quote.                                *)
(***************************************************************************)
C7_StatementInvocationsClassified ==
    (Rendered /\ NoIgnoreMatch) =>
        \A inv \in StatementInvocations :
            /\ IsExternalByReceiver(inv)
                   => HasCallNode(inv, B("External: ") \o ReplaceChar(inv.text, 34, B("'")),
                                  "external")
            /\ IsInternalByClaim(inv) => HasCallNode(inv, inv.name, "internal")

\* A rendering of `rs.g("x"); this.b();` that ignores nothing.
C7_Witness ==
    /\ Rendered
    /\ NoIgnoreMatch
    /\ \E i, j \in StatementInvocations :
          /\ i.text = B("rs.g(\"x\")")
          /\ HasCallNode(i, B("External: rs.g('x')"), "external")
          /\ j.text = B("this.b()")
          /\ HasCallNode(j, B("b"), "internal")

(***************************************************************************)
(* Branches, loops and switches.                                           *)
(***************************************************************************)
StepsOf(kinds) == {i \in 1..Len(steps) : steps[i].kind \in kinds}

\* The lines of the diagram that are an edge (forward or repeat) from
\* `from` to `to`.
HasEdge(from, to) ==
    \E i \in 1..Len(diagram) :
        /\ diagram[i].t \in {"edge", "repeat"}
        /\ diagram[i].id = from
        /\ diagram[i].to = to

\* The forward edges that leave `from` with the label `lab`.
LabelledEdges(from, lab) ==
    {i \in 1..Len(diagram) :
        /\ diagram[i].t = "edge"
        /\ diagram[i].id = from
        /\ diagram[i].lab = Some(lab)}

\* The first node rendered for the statements that follow x in its block or
\* case group, None when x is not in one or nothing rendered follows it.
Follower(x) ==
    LET parents == {p \in Nodes(tree) :
                       /\ p.kind \in {"block", "switch_block_statement_group"}
                       /\ \E i \in 1..Len(p.kids) : p.kids[i] = x}
        p == CHOOSE q \in parents : TRUE
        at == CHOOSE i \in 1..Len(p.kids) : p.kids[i] = x
        later == {j \in (at + 1)..Len(p.kids) : NodesWithin(p.kids[j]) # <<>>}
        next == CHOOSE j \in later : \A j2 \in later : j <= j2
    IN IF parents = {} THEN None
       ELSE IF later = {} THEN None
       ELSE Some(NodesWithin(p.kids[next])[1].id)

Consequence(e) == Unwrap(ChildByFieldName(NodeOf(e), "consequence"))
Alternative(e) == ChildByFieldName(NodeOf(e), "alternative")

BothBranchesRender(e) ==
    /\ IsSome(Alternative(e))
    /\ NodesWithin(Consequence(e)) # <<>>
    /\ NodesWithin(Unwrap(Alternative(e))) # <<>>

(***************************************************************************)
(* C8: for an if/else whose branches both render a node, the decision node *)
(* has exactly one edge labelled Yes, to the first node of the             *)
(* consequence, and exactly one edge labelled No, to the first node of the *)
(* alternative; the step after the if statement has an edge from every     *)
(* exit node of both branches.                                             *)
(***************************************************************************)
C8_BranchLabelsAndConvergence ==
    Rendered =>
        \A i \in StepsOf({"if_statement"}) :
            LET e == steps[i]
                exits == e.parts[1] \o e.parts[2]
            IN BothBranchesRender(e) =>
                /\ Cardinality(LabelledEdges(e.own, B("Yes"))) = 1
                /\ \A l \in LabelledEdges(e.own, B("Yes")) :
                       diagram[l].to = NodesWithin(Consequence(e))[1].id
                /\ Cardinality(LabelledEdges(e.own, B("No"))) = 1
                /\ \A l \in LabelledEdges(e.own, B("No")) :
                       diagram[l].to = NodesWithin(Unwrap(Alternative(e)))[1].id
                /\ IsSome(Follower(NodeOf(e))) =>
                       \A k \in 1..Len(exits) :
                           HasEdge(exits[k], Unwrap(Follower(NodeOf(e))))

\* An if/else with three exit nodes that is followed by a call.
C8_Witness ==
    /\ Rendered
    /\ \E i \in StepsOf({"if_statement"}) :
          /\ BothBranchesRender(steps[i])
          /\ IsSome(Follower(NodeOf(steps[i])))
          /\ Cardinality(Range(steps[i].parts[1] \o steps[i].parts[2])) >= 3

LoopKinds ==
    {"for_statement", "while_statement", "do_statement", "enhanced_for_statement"}

(***************************************************************************)
(* C9: for every loop statement with a body, of any of the four kinds,     *)
(* every exit node of the body has a dashed repeat edge to the loop header *)
(* node, and the header node carries the loop style.                       *)
(***************************************************************************)
C9_LoopBackEdges ==
    Rendered =>
        \A i \in StepsOf(LoopKinds) :
            LET e == steps[i]
            IN IsSome(ChildByFieldName(NodeOf(e), "body")) =>
                /\ \E l \in 1..Len(diagram) :
                       /\ diagram[l].t = "hexagon"
                       /\ diagram[l].id = e.own
                       /\ diagram[l].cls = "loop"
                /\ \A k \in 1..Len(e.parts[1]) :
                       e.parts[1][k] # e.own =>
                           \E l \in 1..Len(diagram) :
                               diagram[l] = RepeatLine(e.parts[1][k], e.own)

\* Loops of the four kinds; a loop whose body has two exit nodes.
C9_Witness ==
    /\ Rendered
    /\ \E i \in StepsOf(LoopKinds) :
          /\ Cardinality(Range(steps[i].parts[1]) \ {steps[i].own}) >= 2
          /\ \A k \in 1..Len(steps[i].parts[1]) :
                 \E l \in 1..Len(diagram) :
                     diagram[l] = RepeatLine(steps[i].parts[1][k], steps[i].own)

\* The case groups (and arrow rules) of a switch, in source order.
CaseGroups(x) ==
    LET body == Unwrap(ChildByFieldName(x, "body"))
    IN SelectSeq(body.kids, LAMBDA c : c.named)

\* The texts of the case labels of a group, in order.
LabelTexts(group) ==
    LET labels == SelectSeq(group.kids, LAMBDA c : c.kind = "switch_label")
    IN [k \in 1..Len(labels) |-> Src(source, labels[k])]

\* The edge label the renderer shows for a group: for an arrow rule the
\* first line of the rule; " replaced by ' and line breaks by spaces; cut
\* when longer than 30.
DisplayedCaseLabel(group) ==
    LET raw == IF group.kind = "switch_block_statement_group"
               THEN Join(LabelTexts(group), B(", "))
               ELSE Trim(Unwrap(FirstLine(Src(source, group))))
        safe == ReplaceChar(ReplaceChar(raw, 34, B("'")), 10, B(" "))
    IN IF Len(safe) > 30 THEN SubSeq(safe, 1, 27) \o B("...") ELSE safe

\* The positions in the diagram of the nodes rendered for x.
NodePositionsWithin(x) ==
    {i \in 1..Len(diagram) :
        /\ diagram[i].t \in NodeShapes
        /\ i < Len(diagram)
        /\ diagram[i + 1].t = "click"
        /\ diagram[i + 1].off >= x.start
        /\ diagram[i + 1].off < x.end}

NodeIdsWithin(x) == {diagram[i].id : i \in NodePositionsWithin(x)}

\* The groups are rendered in source order, and no edge joins two groups.
CasesInOrderAndApart(groups) ==
    \A k1, k2 \in 1..Len(groups) :
        k1 < k2 =>
            /\ \A i \in NodePositionsWithin(groups[k1]) :
                   \A j \in NodePositionsWithin(groups[k2]) : i < j
            /\ \A a \in NodeIdsWithin(groups[k1]) :
                   \A b \in NodeIdsWithin(groups[k2]) : ~HasEdge(a, b) /\ ~HasEdge(b, a)

\* The first node of every group that renders one has an edge from the
\* switch node with the group's label, labels[k] for the k-th group.
CasesEnteredWith(e, groups, labels) ==
    \A k \in 1..Len(groups) :
        NodesWithin(groups[k]) # <<>> =>
            \E l \in LabelledEdges(e.own, labels[k]) :
                diagram[l].to = NodesWithin(groups[k])[1].id

SwitchKinds == {"switch_expression", "switch_statement"}

StatedCaseLabel(group) == Join(LabelTexts(group), B(", "))

(***************************************************************************)
(* C10 as stated: the case groups of a switch are rendered in source order *)
(* and apart from each other: the first node of each group has an edge     *)
(* from the switch node labelled with the group's case label, and no edge  *)
(* joins a node of one group and a node of another.                        *)
(***************************************************************************)
C10_CasesLabelledWithCaseLabel ==
    Rendered =>
        \A i \in StepsOf(SwitchKinds) :
            LET groups == SelectSeq(CaseGroups(NodeOf(steps[i])),
                                    LAMBDA c : c.kind = "switch_block_statement_group")
            IN /\ CasesInOrderAndApart(groups)
               /\ CasesEnteredWith(steps[i], groups,
                                   [k \in 1..Len(groups) |-> StatedCaseLabel(groups[k])])

(***************************************************************************)
(* C10 as amended: the same, the edge into a group carrying the label the  *)
(* renderer displays: the group's case labels joined by ", " (for an arrow *)
(* rule the first line of the rule), with " replaced by ' and, when longer *)
(* than 30 characters, cut to the first 27 followed by "...".              *)
(***************************************************************************)
C10_CasesLabelledWithDisplayLabel ==
    Rendered =>
        \A i \in StepsOf(SwitchKinds) :
            LET groups == CaseGroups(NodeOf(steps[i]))
            IN /\ CasesInOrderAndApart(groups)
               /\ CasesEnteredWith(steps[i], groups,
                                   [k \in 1..Len(groups) |-> DisplayedCaseLabel(groups[k])])

\* A switch with two groups that render nodes, one under a cut label.
C10_Witness ==
    /\ Rendered
    /\ \E i \in StepsOf(SwitchKinds) :
          LET groups == CaseGroups(NodeOf(steps[i]))
          IN /\ Len(groups) = 2
             /\ \A k \in 1..2 : NodesWithin(groups[k]) # <<>>
             /\ DisplayedCaseLabel(groups[1]) = B("case A_CONSTANT_WITH_A_LONG...")
             /\ DisplayedCaseLabel(groups[2]) = B("case 's'")
             /\ CasesEnteredWith(steps[i], groups,
                                 <<B("case A_CONSTANT_WITH_A_LONG..."), B("case 's'")>>)

(***************************************************************************)
(* Call order.                                                             *)
(***************************************************************************)
DeclaredName(x) == Trim(Src(source, Unwrap(ChildByFieldName(x, "name"))))

\* The declaration the registry holds under its name.
Registered(x) ==
    /\ x.kind = "method_declaration"
    /\ IsSome(ChildByFieldName(x, "name"))
    /\ DeclaredName(x) \in DOMAIN graph.nodes
    /\ graph.nodes[DeclaredName(x)].range = <<x.start, x.end>>

\* The statements of the body of a declaration.
BodyStatements(x) ==
    IF IsSome(ChildByFieldName(x, "body"))
    THEN SelectSeq(Unwrap(ChildByFieldName(x, "body")).kids, LAMBDA c : c.named)
    ELSE <<>>

\* s is `name();` with a declared name, no receiver and no argument.
IsPlainCall(s) ==
    /\ s.kind = "expression_statement"
    /\ s.kids[1].kind = "method_invocation"
    /\ Cardinality(Invocations(s)) = 1
    /\ ~IsSome(ChildByFieldName(s.kids[1], "object"))
    /\ Src(source, Unwrap(ChildByFieldName(s.kids[1], "name"))) \in DOMAIN graph.nodes

\* The body of x is a sequence of such statements.
IsCallSequence(x) ==
    /\ IsSome(ChildByFieldName(x, "body"))
    /\ \A k \in 1..Len(BodyStatements(x)) : IsPlainCall(BodyStatements(x)[k])

CalleeNames(x) ==
    [k \in 1..Len(BodyStatements(x)) |->
        Src(source, Unwrap(ChildByFieldName(BodyStatements(x)[k].kids[1], "name")))]

\* The identifier of the start marker (end = FALSE) or of the end marker
\* (end = TRUE) of the method named `name`.
MarkerIds(name, end) ==
    {diagram[i].id : i \in {j \in 1..Len(diagram) :
                                /\ diagram[j].t = "stadium"
                                /\ IF end
                                   THEN /\ diagram[j].cls = "endNode"
                                        /\ diagram[j].text = B("End of ") \o name
                                   ELSE /\ diagram[j].cls = "public"
                                        /\ diagram[j].text = name}}

\* The start marker, the nodes `added` and the end marker of the method
\* form one chain of edges.
IsChain(name, added) ==
    LET ids == [k \in 1..Len(added) |-> added[k].id]
    IN \E s \in MarkerIds(name, FALSE), e \in MarkerIds(name, TRUE) :
           LET path == <<s>> \o ids \o <<e>>
           IN \A k \in 1..(Len(path) - 1) : HasEdge(path[k], path[k + 1])

(***************************************************************************)
(* C11: for a method of the registry whose body is a sequence of           *)
(* invocation statements of declared methods, calls[method] lists the      *)
(* callees in source order with duplicates kept, and the expanded diagram  *)
(* has one internal call node per statement, labelled with the callees in  *)
(* that order, chained by edges from the start marker to the end marker.   *)
(***************************************************************************)
C11_CallOrderPreserved ==
    \A x \in {y \in Nodes(tree) : y.kind = "method_declaration"} :
        (pc # "start" /\ Registered(x) /\ IsCallSequence(x)) =>
            /\ graph.calls[DeclaredName(x)] = CalleeNames(x)
            /\ x \in ShownDeclarations =>
                   /\ Len(NodesWithin(x)) = Len(CalleeNames(x))
                   /\ \A k \in 1..Len(CalleeNames(x)) :
                          /\ NodesWithin(x)[k].text = CalleeNames(x)[k]
                          /\ NodesWithin(x)[k].cls = "internal"
                   /\ IsChain(DeclaredName(x), NodesWithin(x))

\* A rendered body of three calls with a repeated callee: b(); a(); b();
C11_Witness ==
    /\ Rendered
    /\ \E x \in ShownDeclarations :
          /\ Registered(x)
          /\ IsCallSequence(x)
          /\ CalleeNames(x) = <<B("b"), B("a"), B("b")>>
          /\ graph.calls[DeclaredName(x)] = <<B("b"), B("a"), B("b")>>
          /\ [k \in 1..3 |-> NodesWithin(x)[k].text] = <<B("b"), B("a"), B("b")>>

(***************************************************************************)
(* C12: every key of calls in the CallGraph that parse returns is a key of *)
(* nodes.                                                                  *)
(***************************************************************************)
C12_CallersAreDeclared ==
    pc # "start" => DOMAIN graph.calls \subseteq DOMAIN graph.nodes

\* A parsed unit with three methods, one without modifiers, one declared in a
\* nested class or calling another.
C12_Witness ==
    /\ pc = "parsed"
    /\ Cardinality(DOMAIN graph.calls) = 3
    /\ \E k \in DOMAIN graph.calls : graph.nodes[k].modifiers = <<>>
    /\ \E k \in DOMAIN graph.calls : graph.calls[k] # <<>>

(***************************************************************************)
(* External services.                                                      *)
(***************************************************************************)
\* The receiver texts of the invocations in the shown methods that no
\* ignore entry matches and whose receiver is not this.
ShownReceivers ==
    {Unwrap(inv.object) :
        inv \in {i \in AllInvocations : IsExternalByReceiver(i) /\ ~IgnoreMatches(i)}}

(***************************************************************************)
(* C13 as stated: every name in the returned external_services is a        *)
(* receiver prefix,                                                        *)
(* the receiver text before its first '.' (the whole text when it has      *)
(* none), of an invocation that is not ignored; no returned name contains  *)
(* a '.', and System.out.println(x) contributes the name System.           *)
(***************************************************************************)
C13_ExternalsAreReceiverPrefixes ==
    Filtered =>
        /\ \A k \in 1..Len(result.external_services) :
               /\ ~Contains(result.external_services[k], B("."))
               /\ \E r \in ShownReceivers : result.external_services[k] = UpToDot(r)
        /\ \A r \in ShownReceivers : UpToDot(r) \in Range(result.external_services)

\* What the code returns with empty ignore lists: the whole receiver texts
\* of the invocations of the shown methods whose receiver is not this, each
\* once (System.out for System.out.println(x), r.d for r.d.q()).
WholeReceiverTextsReturned ==
    (Filtered /\ request.ignored_variables = <<>> /\ request.ignored_services = <<>>) =>
        /\ Range(result.external_services) = ShownReceivers
        /\ Len(result.external_services) = Cardinality(ShownReceivers)

\* System.out.println(a()); rendered for the target m with empty ignore
\* lists: the one name returned is System.out.
PrintlnReturnsSystemOut ==
    /\ Filtered
    /\ request.method_name = Some(B("m"))
    /\ request.ignored_variables = <<>> /\ request.ignored_services = <<>>
    /\ result.external_services = <<B("System.out")>>

\* What generate_mermaid_filtered computes for the arguments of the request.
Run ==
    generate_mermaid_filtered(graph, source, tree, request.method_name,
                              request.ignored_variables, request.ignored_services,
                              request.collapse_details)

\* The results that a render call with the arguments of the request can
\* return for the parsed unit.
PossibleResults ==
    IF request.fn = "generate_mermaid"
    THEN {[mermaid |->
               TextOfLines(generate_mermaid(graph, source, tree, request.method_name).output),
           external_services |-> <<>>]}
    ELSE {[mermaid |-> TextOfLines(Run.output), external_services |-> order] :
             order \in Orders(Run.detected_externals)}

(***************************************************************************)
(* C14: render is deterministic: every result that a render call with the  *)
(* same call graph, source, target and configuration can return is the     *)
(* result returned, in its diagram text (identifiers numbered from N1) and *)
(* in its external_services list.                                          *)
(***************************************************************************)
C14_RenderDeterministic ==
    Rendered => \A other \in PossibleResults : other = result

(***************************************************************************)
(* Click directives.                                                       *)
(***************************************************************************)
NodeLines == {i \in 1..Len(diagram) : diagram[i].t \in NodeShapes}

ClicksOf(id) == {i \in 1..Len(diagram) : diagram[i].t = "click" /\ diagram[i].id = id}

\* The kinds of syntax node that a node line of the diagram stands for: a
\* marker or placeholder stands for none.
KindsShownBy(l) ==
    CASE l.t = "rect" /\ l.cls \in {"internal", "external"} -> {"method_invocation"}
      [] l.t = "rect" /\ l.cls = "" -> {"return_statement"}
      [] l.t = "diamond" /\ StartsWith(l.text, B("switch ")) -> SwitchKinds
      [] l.t = "diamond" -> {"parenthesized_expression"}
      [] l.t = "hexagon" -> LoopKinds
      [] OTHER -> {}

\* The byte offsets at which a syntax node of one of the kinds starts.
StartsOf(kinds) == {x.start : x \in {y \in Nodes(tree) : y.kind \in kinds}}

(***************************************************************************)
(* C15 as stated: every node declaration of the diagram, the start and end *)
(* markers and the collapsed placeholders included, has a click directive  *)
(* for its identifier.                                                     *)
(***************************************************************************)
C15_EveryNodeHasClick ==
    Rendered => \A i \in NodeLines : ClicksOf(diagram[i].id) # {}

(***************************************************************************)
(* C15 as amended: every call, decision, loop, switch and return node is   *)
(* followed at once by the one click directive for its identifier, which   *)
(* references the byte offset where the invocation, the if condition, the  *)
(* loop, the switch or the return statement starts; a start marker, an end *)
(* marker and a collapsed placeholder have no click directive.             *)
(***************************************************************************)
C15_StatementNodesHaveClick ==
    Rendered =>
        \A i \in NodeLines :
            IF diagram[i].t = "stadium"
            THEN ClicksOf(diagram[i].id) = {}
            ELSE /\ ClicksOf(diagram[i].id) = {i + 1}
                 /\ diagram[i + 1].off \in StartsOf(KindsShownBy(diagram[i]))

\* A diagram with a call, a decision, a loop and a return node and markers.
C15_Witness ==
    /\ Rendered
    /\ \A shape \in {"rect", "diamond", "hexagon", "stadium"} :
           \E i \in NodeLines : diagram[i].t = shape
    /\ \E i \in NodeLines : diagram[i].t = "rect" /\ diagram[i].cls = ""
    /\ \E i \in NodeLines : diagram[i].t = "rect" /\ diagram[i].cls = "internal"
    /\ \A i \in NodeLines : diagram[i].t # "stadium" => ClicksOf(diagram[i].id) = {i + 1}

(***************************************************************************)
(* Start and end markers.                                                  *)
(***************************************************************************)
\* The names of the methods the request targets.
Targets ==
    IF IsSome(request.method_name)
    THEN {Unwrap(request.method_name)} \cap DOMAIN graph.nodes
    ELSE Eligible

\* The declarations rendered expanded for the request.
TargetDeclarations ==
    IF Rendered /\ ~(request.collapse_details /\ ~IsSome(request.method_name))
    THEN {x \in Nodes(tree) : Registered(x) /\ DeclaredName(x) \in Targets}
    ELSE {}

\* The lines that are a marker of the method `name`.
MarkerLines(name, end) ==
    {j \in 1..Len(diagram) :
        /\ diagram[j].t = "stadium"
        /\ IF end THEN diagram[j].cls = "endNode" /\ diagram[j].text = B("End of ") \o name
           ELSE diagram[j].cls = "public" /\ diagram[j].text = name}

\* The frontier after the body of x: the one that the last statement
\* processed in x returned, the start marker when none was processed.
FrontierAfterBody(x) ==
    LET inside == {i \in 1..Len(steps) : steps[i].start >= x.start /\ steps[i].end <= x.end}
        last == CHOOSE i \in inside : \A j \in inside : j <= i
    IN IF inside = {} THEN [k \in 1..1 |-> CHOOSE id \in MarkerIds(DeclaredName(x), FALSE) : TRUE]
       ELSE steps[last].ids

HasBody(x) == IsSome(ChildByFieldName(x, "body"))

\* One start marker; one end marker with an edge from every node of the
\* frontier after the body.
MarkersAround(x) ==
    /\ Cardinality(MarkerLines(DeclaredName(x), FALSE)) = 1
    /\ Cardinality(MarkerLines(DeclaredName(x), TRUE)) = 1
    /\ \A e \in MarkerIds(DeclaredName(x), TRUE) :
           \A k \in 1..Len(FrontierAfterBody(x)) : HasEdge(FrontierAfterBody(x)[k], e)

(***************************************************************************)
(* C16 as stated: the expanded rendering of every targeted method, one     *)
(* declared without a body included, has exactly one start marker labelled *)
(* with the method name in the public style and exactly one end marker     *)
(* labelled `End of <name>` in the endNode style, and every node of the    *)
(* frontier after the body has an edge to the end marker.                  *)
(***************************************************************************)
C16_EveryMethodHasEndMarker ==
    \A x \in TargetDeclarations : MarkersAround(x)

(***************************************************************************)
(* C16 as amended: the same for every targeted method declared with a      *)
(* body; the rendering of a targeted method declared without a body has    *)
(* exactly one start marker and no end marker.                             *)
(***************************************************************************)
C16_MethodWithBodyHasEndMarker ==
    \A x \in TargetDeclarations :
        IF HasBody(x) THEN MarkersAround(x)
        ELSE /\ Cardinality(MarkerLines(DeclaredName(x), FALSE)) = 1
             /\ MarkerLines(DeclaredName(x), TRUE) = {}

\* A rendering of a method without a body next to one whose body leaves a
\* call node in the frontier.
C16_Witness ==
    /\ \E x \in TargetDeclarations : ~HasBody(x) /\ MarkerLines(DeclaredName(x), TRUE) = {}
    /\ \E x \in TargetDeclarations :
          /\ HasBody(x)
          /\ MarkersAround(x)
          /\ FrontierAfterBody(x) \notin {<<id>> : id \in MarkerIds(DeclaredName(x), FALSE)}

(***************************************************************************)
(* Names declared more than once.                                          *)
(***************************************************************************)
\* The declarations named `name`.
DeclarationsOf(name) ==
    {x \in Nodes(tree) :
        /\ x.kind = "method_declaration"
        /\ IsSome(ChildByFieldName(x, "name"))
        /\ DeclaredName(x) = name}

\* The one that comes last in the source.
LaterDeclaration(name) ==
    CHOOSE x \in DeclarationsOf(name) : \A y \in DeclarationsOf(name) : y.start <= x.start

(***************************************************************************)
(* C17: when several method declarations share a simple name, the registry *)
(* has one entry for the name and it is that of the later declaration in   *)
(* document order: nodes[name].range is its range and calls[name] is the   *)
(* call list of its body.                                                  *)
(***************************************************************************)
C17_LaterDeclarationWins ==
    pc # "start" =>
        \A name \in DOMAIN graph.nodes :
            /\ graph.nodes[name].range =
                   <<LaterDeclaration(name).start, LaterDeclaration(name).end>>
            /\ graph.calls[name] =
                   find_calls(LaterDeclaration(name), source, DOMAIN graph.nodes)

\* A parsed unit with a name declared twice or more whose declarations have
\* different call lists.
C17_Witness ==
    /\ pc = "parsed"
    /\ \E name \in DOMAIN graph.nodes :
          /\ Cardinality(DeclarationsOf(name)) >= 2
          /\ \A x \in DeclarationsOf(name) \ {LaterDeclaration(name)} :
                 find_calls(x, source, DOMAIN graph.nodes) # graph.calls[name]
          /\ graph.calls[name] # <<>>

(***************************************************************************)
(* Collapse mode and the target.                                           *)
(***************************************************************************)
\* What generate_mermaid_filtered computes for the request with
\* collapse_details = false.
RunExpanded ==
    generate_mermaid_filtered(graph, source, tree, request.method_name,
                              request.ignored_variables, request.ignored_services, FALSE)

\* The results the call with collapse_details = false can return.
PossibleExpandedResults ==
    {[mermaid |-> TextOfLines(RunExpanded.output), external_services |-> order] :
        order \in Orders(RunExpanded.detected_externals)}

(***************************************************************************)
(* C18: collapse mode takes effect only without a target: with a target    *)
(* name, generate_mermaid_filtered with collapse_details = true returns    *)
(* what it returns with collapse_details = false (the same diagram text    *)
(* and the same external services); with no target and collapse_details =  *)
(* true, the diagram has one placeholder node per eligible method, no      *)
(* other node and no edge.                                                 *)
(***************************************************************************)
C18_CollapseOnlyWithoutTarget ==
    (Filtered /\ request.collapse_details) =>
        IF IsSome(request.method_name)
        THEN /\ result \in PossibleExpandedResults
             /\ PossibleResults = PossibleExpandedResults
             /\ diagram = RunExpanded.output
        ELSE /\ Range(MethodsShown(diagram)) = Eligible
             /\ Len(MethodsShown(diagram)) = Cardinality(Eligible)
             /\ \A i \in NodeLines : diagram[i].t = "stadium" /\ diagram[i].cls = "public"
             /\ \A i \in 1..Len(diagram) : diagram[i].t \notin {"edge", "repeat"}

\* collapse_details = true with a target whose expanded diagram has edges
\* and an external service.
C18_Witness ==
    /\ Filtered
    /\ request.collapse_details
    /\ IsSome(request.method_name)
    /\ \E i \in 1..Len(diagram) : diagram[i].t = "edge"
    /\ result.external_services # <<>>
    /\ diagram = RunExpanded.output

(***************************************************************************)
(* Source references.                                                      *)
(***************************************************************************)

\* The number of lines of the source.
LineCount(t) == 1 + Cardinality({i \in 1..Len(t) : t[i] = 10})

\* The label ends with `(L<line>)` for a line of the source.
HasLineSuffix(label) ==
    \E n \in 1..LineCount(source) : EndsWith(label, B("(L" \o ToString(n) \o ")"))

\* The labels of the call, decision, loop, switch and return nodes.
StatementLabels ==
    {diagram[i].text : i \in {j \in NodeLines : diagram[j].t # "stadium"}}

(***************************************************************************)
(* C19: the arguments of a render call include a show_source_reference     *)
(* flag; when it is enabled the label of every call, decision, loop,       *)
(* switch and return node ends with `(L<line>)`, and when it is disabled   *)
(* no label does.                                                          *)
(***************************************************************************)
C19_SourceReferenceToggle ==
    Rendered =>
        /\ "show_source_reference" \in DOMAIN request
        /\ IF request.show_source_reference
           THEN \A label \in StatementLabels : HasLineSuffix(label)
           ELSE \A label \in StatementLabels : ~HasLineSuffix(label)

(***************************************************************************)
(* Internal call nodes.                                                    *)
(***************************************************************************)
\* The labels of the call nodes rendered with the internal style.
InternalLabels ==
    {CallNodes(diagram)[k].text :
        k \in {j \in 1..Len(CallNodes(diagram)) : CallNodes(diagram)[j].cls = "internal"}}

(***************************************************************************)
(* C20: every call node rendered with the internal style names a method    *)
(* declared in the unit: its label is a key of graph.nodes.                *)
(***************************************************************************)
C20_InternalNodesAreDeclared ==
    Rendered => InternalLabels \subseteq DOMAIN graph.nodes

(***************************************************************************)
(* C20, amended: every call node rendered with the internal style stands   *)
(* for an invocation with the receiver this, or for an invocation without  *)
(* receiver whose name is a key of graph.nodes.                            *)
(***************************************************************************)
C20_InternalNodesAreThisOrDeclared ==
    Rendered =>
        \A k \in 1..Len(CallNodes(diagram)) :
            CallNodes(diagram)[k].cls = "internal" =>
                \E inv \in Invocations(tree) :
                    /\ inv.start = CallNodes(diagram)[k].off
                    /\ inv.name = CallNodes(diagram)[k].text
                    /\ IsInternalByClaim(inv)

\* A diagram with an internal call node for an undeclared method called on
\* this, and an internal call node for a declared method.
C20_Witness ==
    /\ Rendered
    /\ InternalLabels \ DOMAIN graph.nodes # {}
    /\ InternalLabels \cap DOMAIN graph.nodes # {}

(***************************************************************************)
(* The frontier after a switch.                                            *)
(***************************************************************************)
RECURSIVE ConcatAll(_)
ConcatAll(qs) == IF qs = <<>> THEN <<>> ELSE Head(qs) \o ConcatAll(Tail(qs))

\* The forward edges from `from` to `to`.
ForwardEdges(from, to) ==
    {i \in 1..Len(diagram) :
        /\ diagram[i].t = "edge"
        /\ diagram[i].id = from
        /\ diagram[i].to = to}

NoGroupRenders(e) ==
    \A k \in 1..Len(CaseGroups(NodeOf(e))) : NodesWithin(CaseGroups(NodeOf(e))[k]) = <<>>

\* C21: after a switch the frontier is the concatenation of the exit
\* frontiers of its case groups; when no case group rendered a node it is
\* the switch node alone, once, and the step that follows the switch has
\* exactly one edge from the switch node.
C21_SwitchFrontier ==
    Rendered =>
        \A i \in StepsOf(SwitchKinds) :
            LET e == steps[i]
            IN IF NoGroupRenders(e)
               THEN /\ e.ids = <<e.own>>
                    /\ IsSome(Follower(NodeOf(e))) =>
                           Cardinality(ForwardEdges(e.own, Unwrap(Follower(NodeOf(e))))) = 1
               ELSE e.ids = ConcatAll(e.parts)

(***************************************************************************)
(* The frontier after a loop.                                              *)
(***************************************************************************)
\* The forward edges that arrive at `to`.
ForwardEdgesInto(to) == {i \in 1..Len(diagram) : diagram[i].t = "edge" /\ diagram[i].to = to}

\* The last statement processed in the body of the declaration x.
LastStepIn(x) ==
    LET inside == {i \in 1..Len(steps) : steps[i].start >= x.start /\ steps[i].end <= x.end}
    IN IF inside = {} THEN 0 ELSE CHOOSE i \in inside : \A j \in inside : j <= i

\* The end markers of the declarations whose last processed statement is
\* the i-th step.
EndMarkersAfter(i) ==
    UNION {MarkerIds(DeclaredName(x), TRUE) : x \in {d \in TargetDeclarations : LastStepIn(d) = i}}

\* C22: after a loop the frontier is the loop header node alone: the node
\* that follows the loop, or the end marker, has one incoming forward edge,
\* which leaves the loop header and no node of the body.
C22_LoopFrontier ==
    Rendered =>
        \A i \in StepsOf(LoopKinds) :
            LET e == steps[i]
                next == (IF IsSome(Follower(NodeOf(e))) THEN {Unwrap(Follower(NodeOf(e)))} ELSE {})
                        \cup EndMarkersAfter(i)
            IN /\ e.ids = <<e.own>>
               /\ \A f \in next :
                      /\ Cardinality(ForwardEdgesInto(f)) = 1
                      /\ \A l \in ForwardEdgesInto(f) : diagram[l].id = e.own

\* A loop whose body renders a node is followed by a node.
C22_Witness ==
    /\ Rendered
    /\ \E i \in StepsOf(LoopKinds) :
           /\ Range(steps[i].parts[1]) # {steps[i].own}
           /\ IsSome(Follower(NodeOf(steps[i])))

(***************************************************************************)
(* The calls of an if condition.                                           *)
(***************************************************************************)
\* The invocations below n in document order, an invocation before the
\* invocations it contains.
RECURSIVE InvocationsInOrder(_)
InvocationsInOrder(n) ==
    (IF n.kind = "method_invocation"
     THEN <<[start |-> n.start,
             text |-> Src(source, n),
             name |-> Src(source, Unwrap(ChildByFieldName(n, "name"))),
             object |-> IF IsSome(ChildByFieldName(n, "object"))
                        THEN Some(Src(source, Unwrap(ChildByFieldName(n, "object"))))
                        ELSE None]>>
     ELSE <<>>)
    \o ConcatAll([i \in 1..Len(n.kids) |-> InvocationsInOrder(n.kids[i])])

\* The invocations found in n: those that no ignore entry matches.
FoundIn(n) == SelectSeq(InvocationsInOrder(n), LAMBDA inv : ~IgnoreMatches(inv))

\* The positions of the click directives that point into n, in emission
\* order; the node of each is the line before it.
ClicksInto(n) ==
    SelectSeq([i \in 1..Len(diagram) |-> i],
              LAMBDA i : diagram[i].t = "click" /\ diagram[i].off >= n.start
                                                /\ diagram[i].off < n.end)

\* The line l is a call node of the invocation inv.
IsCallNodeOf(l, inv) ==
    /\ l.t = "rect"
    /\ \/ l.cls = "external" /\ l.text = B("External: ") \o ReplaceChar(inv.text, 34, B("'"))
       \/ l.cls = "internal" /\ l.text = inv.name

Condition(e) == Unwrap(ChildByFieldName(NodeOf(e), "condition"))

\* C23: the invocations found in the condition of an if statement are call
\* nodes rendered before the decision node, in document order; the
\* frontier that arrives has its edges into the first of these nodes, with
\* the pending label; every later node of the chain, the decision node
\* last, has one unlabelled edge from the node before it.
C23_ConditionCallsBeforeDecision ==
    Rendered =>
        \A i \in StepsOf({"if_statement"}) :
            LET e == steps[i]
                found == FoundIn(Condition(e))
                at == ClicksInto(Condition(e))
                n == Len(found)
            IN /\ Len(at) = n + 1
               /\ \A k \in 1..n : /\ IsCallNodeOf(diagram[at[k] - 1], found[k])
                                  /\ diagram[at[k]].off = found[k].start
               /\ diagram[at[n + 1] - 1].t = "diamond"
               /\ diagram[at[n + 1] - 1].id = e.own
               /\ {diagram[l] : l \in ForwardEdgesInto(diagram[at[1] - 1].id)}
                      = {EdgeLine(e.prev_ids[j], e.label, diagram[at[1] - 1].id) :
                             j \in 1..Len(e.prev_ids)}
               /\ \A k \in 2..(n + 1) :
                      /\ Cardinality(ForwardEdgesInto(diagram[at[k] - 1].id)) = 1
                      /\ \A l \in ForwardEdgesInto(diagram[at[k] - 1].id) :
                             diagram[l] = EdgeLine(diagram[at[k - 1] - 1].id, None,
                                                   diagram[at[k] - 1].id)

\* An if statement with two calls in its condition is entered with a
\* pending label.
C23_Witness ==
    /\ Rendered
    /\ \E i \in StepsOf({"if_statement"}) :
           /\ Len(FoundIn(Condition(steps[i]))) >= 2
           /\ IsSome(steps[i].label)

(***************************************************************************)
(* The frontier after a return statement.                                  *)
(***************************************************************************)
\* The node rendered last for the statement of the step e.
LastNodeOf(e) == NodesWithin(e)[Len(NodesWithin(e))]

\* The loops whose body has the i-th step as its last processed statement.
LoopsEndingWith(i) ==
    {j \in StepsOf(LoopKinds) :
        /\ IsSome(ChildByFieldName(NodeOf(steps[j]), "body"))
        /\ LastStepIn(Unwrap(ChildByFieldName(NodeOf(steps[j]), "body"))) = i}

\* C24: after a return statement the frontier is the return node alone:
\* the node rendered next in the enclosing sequence, the end marker of the
\* method, and the repeat edge of an enclosing loop start from it.
C24_ReturnStaysInFrontier ==
    Rendered =>
        \A i \in ReturnSteps :
            LET e == steps[i]
                ret == LastNodeOf(e)
            IN /\ ret.t = "rect" /\ ret.cls = ""
               /\ e.ids = <<ret.id>>
               /\ IsSome(Follower(NodeOf(e))) =>
                      ForwardEdges(ret.id, Unwrap(Follower(NodeOf(e)))) # {}
               /\ \A m \in EndMarkersAfter(i) : ForwardEdges(ret.id, m) # {}
               /\ \A j \in LoopsEndingWith(i) :
                      \E l \in 1..Len(diagram) : diagram[l] = RepeatLine(ret.id, steps[j].own)

\* A return statement is followed by a call in its block.
C24_Witness ==
    /\ Rendered
    /\ \E i \in ReturnSteps : IsSome(Follower(NodeOf(steps[i])))

(***************************************************************************)
(* Repeated frontier entries.                                              *)
(***************************************************************************)
NoRepeats(q) == \A i, j \in 1..Len(q) : q[i] = q[j] => i = j

\* C25: no frontier holds the same node identifier twice, and no edge
\* (same source, same target, same label) is in the diagram more than once;
\* an if statement whose branches render nothing, followed by a call, has
\* one edge from the decision node to that call.
C25_NoRepeatedFrontierEntry ==
    Rendered =>
        /\ \A i \in 1..Len(steps) : NoRepeats(steps[i].ids) /\ NoRepeats(steps[i].prev_ids)
        /\ \A l1, l2 \in 1..Len(diagram) :
               (diagram[l1].t = "edge" /\ diagram[l1] = diagram[l2]) => l1 = l2
        /\ \A i \in StepsOf({"if_statement"}) :
               (/\ NodesWithin(Consequence(steps[i])) = <<>>
                /\ IsSome(Alternative(steps[i]))
                       => NodesWithin(Unwrap(Alternative(steps[i]))) = <<>>
                /\ IsSome(Follower(NodeOf(steps[i]))))
               => Cardinality(ForwardEdges(steps[i].own,
                                           Unwrap(Follower(NodeOf(steps[i]))))) = 1

(***************************************************************************)
(* The call graph and the flowchart.                                       *)
(***************************************************************************)
\* A rendering with empty ignore lists that shows its methods expanded.
ExpandedUnfiltered ==
    /\ Rendered
    /\ ~(request.collapse_details /\ ~IsSome(request.method_name))
    /\ request.ignored_variables = <<>>
    /\ request.ignored_services = <<>>

\* The labels of the internal call nodes rendered for the declaration x.
InternalLabelsOf(x) ==
    {diagram[i].text : i \in {j \in NodePositionsWithin(x) :
                                  diagram[j].t = "rect" /\ diagram[j].cls = "internal"}}

\* C26: every callee that parse records in calls[m] is the label of an
\* internal call node in the expanded rendering of m with empty ignore
\* lists, wherever the invocation sits in the body.
C26_RecordedCallsAreRendered ==
    ExpandedUnfiltered =>
        \A x \in TargetDeclarations :
            Range(graph.calls[DeclaredName(x)]) \subseteq InternalLabelsOf(x)

MethodInvocations(x) == {c \in Nodes(x) : c.kind = "method_invocation"}

\* The text of the receiver of the invocation c, None without one.
ReceiverOf(c) ==
    IF IsSome(ChildByFieldName(c, "object"))
    THEN Some(Src(source, Unwrap(ChildByFieldName(c, "object")))) ELSE None

NameOf(c) == Src(source, Unwrap(ChildByFieldName(c, "name")))

\* c is a call parse records for x: no receiver or the receiver this, a
\* declared name, and inside another invocation only as part of its
\* arguments.
RecordedByParse(c, x) ==
    /\ ReceiverOf(c) \in {None, Some(B("this"))}
    /\ NameOf(c) \in DOMAIN graph.nodes
    /\ \A a \in MethodInvocations(x) \ {c} :
           c \in Nodes(a) =>
               /\ IsSome(ChildByFieldName(a, "arguments"))
               /\ c \in Nodes(Unwrap(ChildByFieldName(a, "arguments")))

\* c sits in a statement that renders its calls.
InCallStatement(c, x) ==
    \E s \in Nodes(x) :
        \/ /\ s.kind \in {"expression_statement", "local_variable_declaration",
                          "return_statement"}
           /\ c \in Nodes(s)
        \/ /\ s.kind = "if_statement"
           /\ c \in Nodes(Unwrap(ChildByFieldName(s, "condition")))

\* c sits in the header of a loop or in the subject of a switch.
InHeader(c, x) ==
    \E s \in Nodes(x) :
        /\ s.kind \in LoopKinds \cup SwitchKinds
        /\ \E i \in 1..Len(s.kids) : s.kids[i].field # "body" /\ c \in Nodes(s.kids[i])

HasInternalNode(c) ==
    \E i \in 1..(Len(diagram) - 1) :
        /\ diagram[i].t = "rect" /\ diagram[i].cls = "internal"
        /\ diagram[i].text = NameOf(c)
        /\ diagram[i + 1].t = "click" /\ diagram[i + 1].off = c.start

\* What the two walks agree on: a call that parse records has an internal
\* call node when it sits in an expression statement, a local variable
\* declaration, a return statement or the condition of an if statement,
\* outside the header of a loop and the subject of a switch; a recorded
\* call in such a header or subject has none.
RecordedStatementCallsAreRendered ==
    ExpandedUnfiltered =>
        \A x \in TargetDeclarations :
            \A c \in MethodInvocations(x) :
                RecordedByParse(c, x) =>
                    /\ (InCallStatement(c, x) /\ ~InHeader(c, x)) => HasInternalNode(c)
                    /\ InHeader(c, x) => ~HasInternalNode(c)

\* C27: every internal call node in the expanded rendering of m with empty
\* ignore lists whose label is a declared name is an entry of calls[m],
\* also when the invocation is the receiver of another invocation.
C27_RenderedCallsAreRecorded ==
    ExpandedUnfiltered =>
        \A x \in TargetDeclarations :
            InternalLabelsOf(x) \cap DOMAIN graph.nodes
                \subseteq Range(graph.calls[DeclaredName(x)])

\* The same for the invocations that are not below the receiver of another
\* invocation.
RenderedCallsOutsideReceiversAreRecorded ==
    ExpandedUnfiltered =>
        \A x \in TargetDeclarations :
            \A c \in MethodInvocations(x) :
                (HasInternalNode(c) /\ NameOf(c) \in DOMAIN graph.nodes
                                    /\ NameOf(c) \notin Range(graph.calls[DeclaredName(x)]))
                    => \E a \in MethodInvocations(x) \ {c} :
                           /\ IsSome(ChildByFieldName(a, "object"))
                           /\ c \in Nodes(Unwrap(ChildByFieldName(a, "object")))

(***************************************************************************)
(* The pending edge label.                                                 *)
(***************************************************************************)
\* The kinds of statement that hand the label `lab` to what they enclose.
OwnersOf(lab) ==
    IF lab \in {B("Yes"), B("No")} THEN {"if_statement"}
    ELSE IF lab = B("loop body") THEN LoopKinds
    ELSE SwitchKinds

\* The shape of the node of a statement that hands on the label `lab`.
OwnerShape(lab) == IF lab = B("loop body") THEN "hexagon" ELSE "diamond"

\* C28: a statement that is handled with a pending label is handled with
\* the frontier that holds only the node of the if, loop or switch
\* statement that set the label and encloses it; every labelled forward
\* edge leaves the node of such a statement.
C28_LabelStaysWithItsOwner ==
    Rendered =>
        /\ \A i \in 1..Len(steps) :
               IsSome(steps[i].label) =>
                   \E j \in StepsOf(OwnersOf(Unwrap(steps[i].label))) :
                       /\ steps[j].start <= steps[i].start
                       /\ steps[i].end <= steps[j].end
                       /\ j # i
                       /\ steps[i].prev_ids = <<steps[j].own>>
        /\ \A l \in 1..Len(diagram) :
               (diagram[l].t = "edge" /\ IsSome(diagram[l].lab)) =>
                   \E j \in StepsOf(OwnersOf(Unwrap(diagram[l].lab))) :
                       /\ steps[j].own = diagram[l].id
                       /\ \E k \in 1..Len(diagram) :
                              /\ diagram[k].t = OwnerShape(Unwrap(diagram[l].lab))
                              /\ diagram[k].id = diagram[l].id

\* A branch with a statement that renders nothing before two calls: the
\* second of them is handled without the label.
C28_Witness ==
    /\ Rendered
    /\ \E i, j \in 1..Len(steps) :
           /\ i < j
           /\ steps[i].label = Some(B("Yes"))
           /\ steps[i].ids # steps[i].prev_ids
           /\ steps[j].prev_ids = steps[i].ids
           /\ steps[j].label = None
           /\ steps[j].ids # steps[j].prev_ids

(***************************************************************************)
(* Node identifiers.                                                       *)
(***************************************************************************)
\* The positions of the node declarations of the diagram, in order.
Declarations == SelectSeq([i \in 1..Len(diagram) |-> i], LAMBDA i : diagram[i].t \in NodeShapes)

\* The line that opens the subgraph the line l is in, 0 outside of one.
SubgraphOf(l) ==
    LET opened == {s \in 1..l : diagram[s].t = "subgraph"}
        last == CHOOSE s \in opened : \A s2 \in opened : s2 <= s
    IN IF opened = {} THEN 0
       ELSE IF \E e \in last..l : diagram[e].t = "end" THEN 0
       ELSE last

\* The identifiers declared in the subgraph opened at line s.
DeclaredIn(s) == {diagram[i].id : i \in {j \in NodeLines : SubgraphOf(j) = s}}

\* C29: the node declarations of a render carry N1, N2, ... Nk in the order
\* of their lines, each once; every edge is inside the subgraph of a method
\* and both its ends are declared in that subgraph.
C29_IdentifiersSequentialAndLocal ==
    Rendered =>
        /\ \A k \in 1..Len(Declarations) : diagram[Declarations[k]].id = "N" \o ToString(k)
        /\ \A l \in 1..Len(diagram) :
               diagram[l].t \in {"edge", "repeat"} =>
                   /\ SubgraphOf(l) # 0
                   /\ diagram[l].id \in DeclaredIn(SubgraphOf(l))
                   /\ diagram[l].to \in DeclaredIn(SubgraphOf(l))

\* Two methods are rendered expanded, the second with a repeat edge.
C29_Witness ==
    /\ Rendered
    /\ Cardinality({s \in 1..Len(diagram) : diagram[s].t = "subgraph"}) >= 2
    /\ \E l \in 1..Len(diagram) :
           /\ diagram[l].t = "repeat"
           /\ \E s \in 1..(SubgraphOf(l) - 1) : diagram[s].t = "edge"

(***************************************************************************)
(* The two entry points.                                                   *)
(***************************************************************************)
\* What generate_mermaid_filtered returns for the target of the request
\* with the default ignore lists and without collapse.
FilteredWithDefaults ==
    generate_mermaid_filtered(graph, source, tree, request.method_name, <<>>,
                              <<B("System.out"), B("System.err")>>, FALSE)

ShowsSystemStream ==
    \E i \in NodeLines :
        \/ StartsWith(diagram[i].text, B("External: System.out"))
        \/ StartsWith(diagram[i].text, B("External: System.err"))

\* C30: the text generate_mermaid returns is the text
\* generate_mermaid_filtered returns for the same graph, source and target
\* with ignored_variables = [], ignored_services = [System.out, System.err]
\* and collapse_details = false; it shows no call on System.out or
\* System.err.
C30_UnfilteredIsFilteredWithDefaults ==
    (Rendered /\ request.fn = "generate_mermaid") =>
        /\ result.mermaid = TextOfLines(FilteredWithDefaults.output)
        /\ ~ShowsSystemStream

\* generate_mermaid has rendered a method that prints to System.out.
C30_Witness ==
    /\ Rendered
    /\ request.fn = "generate_mermaid"
    /\ \E inv \in AllInvocations : StartsWith(inv.text, B("System.out"))
    /\ Len(CallNodes(diagram)) < Cardinality(AllInvocations)

====
